---- MODULE Spec2Model ----
(***************************************************************************)
(* CO2MPAS: the command-line front end (compas/__main__.py) and the model  *)
(* comparison / selection engine (compas/functions/physical/__init__.py).  *)
(*                                                                         *)
(* Strings that the code inspects (paths) are sequences of tokens: a path  *)
(* separator is the token "/", an extension dot is the token ".".          *)
(***************************************************************************)
EXTENDS Integers, Sequences, FiniteSets, TLC

VARIABLES
    fs,       \* the file system: absolute path -> entry
    pre,      \* the file system when the running / last command started
    cmd,      \* the parsed options (docopt) of the running / last command
    result,   \* how main() ended, or "running"
    written,  \* the paths opened for writing by the running / last command
    sim,      \* the position of _run_simulation and its local variables
    calls,    \* the calls of process_folder_files made by the command
    co,       \* model_selector: the tuple of calibration outputs
    sel,      \* model_selector: its position and local variables
    gm,       \* get_models: a calibration output and what it returned
    cal,      \* calibrate_model_params: its arguments, position and locals
    fn,       \* one call of a formula of co2_emission.py and its result
    doc,      \* test_README_version_opening: the readme and the position of its loop
    cp        \* calibrate_co2_params: its arguments, position and locals

cliVars == <<fs, pre, cmd, result, written, sim, calls>>
selVars == <<co, sel>>
gmVars == <<gm>>
calVars == <<cal>>
fnVars == <<fn>>
docVars == <<doc>>
cpVars == <<cp>>

vars == <<fs, pre, cmd, result, written, sim, calls, co, sel, gm, cal, fn, doc, cp>>

-----------------------------------------------------------------------------
(* Bounds of the model.                                                    *)

\* the longest <excel-file-path> ... argument list of one template command
MaxPaths == 2

\* the most calibration outputs handed to model_selector
MaxRecords == 2

\* the most lines of a readme
MaxLines == 22

\* the most calibration cycles handed to calibrate_co2_params
MaxCycles == 2

-----------------------------------------------------------------------------
(* Paths: os.path on token sequences.                                      *)

Sep == "/"
Dot == "."

\* the process' working directory, an absolute path
Cwd == <<Sep, "w">>

IsAbs(p) == Len(p) > 0 /\ p[1] = Sep

\* the components of p between its separators (empty ones included)
RECURSIVE SplitPath(_, _, _)
SplitPath(p, i, cur) ==
    IF i > Len(p) THEN <<cur>>
    ELSE IF p[i] = Sep THEN <<cur>> \o SplitPath(p, i + 1, <<>>)
    ELSE SplitPath(p, i + 1, Append(cur, p[i]))

\* os.path.normpath on the components of an absolute path: "" and "." are
\* dropped, ".." removes the component before it (and stays at the root)
RECURSIVE NormComps(_, _, _)
NormComps(comps, i, stack) ==
    IF i > Len(comps) THEN stack
    ELSE IF comps[i] = <<>> \/ comps[i] = <<Dot>>
         THEN NormComps(comps, i + 1, stack)
    ELSE IF comps[i] = <<Dot, Dot>>
         THEN NormComps(comps, i + 1,
                        IF Len(stack) = 0 THEN stack
                        ELSE SubSeq(stack, 1, Len(stack) - 1))
    ELSE NormComps(comps, i + 1, Append(stack, comps[i]))

RECURSIVE JoinComps(_, _)
JoinComps(comps, i) ==
    IF i > Len(comps) THEN <<>>
    ELSE <<Sep>> \o comps[i] \o JoinComps(comps, i + 1)

\* os.path.abspath
AbsPath(p) ==
    LET full  == IF IsAbs(p) THEN p ELSE Cwd \o <<Sep>> \o p
        comps == NormComps(SplitPath(full, 1, <<>>), 1, <<>>)
    IN  IF Len(comps) = 0 THEN <<Sep>> ELSE JoinComps(comps, 1)

\* os.path.join(folder, name) for a relative name
PathJoin(folder, name) ==
    IF Len(folder) > 0 /\ folder[Len(folder)] = Sep THEN folder \o name
    ELSE folder \o <<Sep>> \o name

\* str.endswith('.xlsx')
EndsWithXlsx(p) ==
    Len(p) >= 2 /\ p[Len(p) - 1] = Dot /\ p[Len(p)] = "xlsx"

\* '%s.xlsx' % fpath
AddXlsx(p) == p \o <<Dot, "xlsx">>

\* the index of the last separator of an absolute path
RECURSIVE LastSep(_, _)
LastSep(p, i) == IF i <= 1 THEN 1 ELSE IF p[i] = Sep THEN i ELSE LastSep(p, i - 1)

\* os.path.dirname of an absolute, normalized path
DirName(p) ==
    LET k == LastSep(p, Len(p)) IN IF k = 1 THEN <<Sep>> ELSE SubSeq(p, 1, k - 1)

-----------------------------------------------------------------------------
(* The file system.                                                        *)

Absent == [kind |-> "absent", data |-> ""]
Dir == [kind |-> "dir", data |-> ""]
File(d) == [kind |-> "file", data |-> d]

Lookup(f, p) == IF p \in DOMAIN f THEN f[p] ELSE Absent

\* os.path.exists, os.path.isdir
Exists(f, p) == p = <<Sep>> \/ Lookup(f, p).kind # "absent"
IsDir(f, p) == p = <<Sep>> \/ Lookup(f, p).kind = "dir"

\* open(p, 'wb') fails with an OSError when p is a directory or when its
\* parent is not an existing directory
CanOpenForWrite(f, p) == ~IsDir(f, p) /\ IsDir(f, DirName(p))

\* with open(p, 'wb') as fd: shutil.copyfileobj(stream, fd, ...)
WriteFile(f, p, d) ==
    [q \in DOMAIN f \cup {p} |-> IF q = p THEN File(d) ELSE f[q]]

-----------------------------------------------------------------------------
(* Exceptions and the top of the CLI.                                      *)

NoExc == [cls |-> "none", kind |-> "none"]
CmdException(kind) == [cls |-> "CmdException", kind |-> kind]
NotImplementedError == [cls |-> "NotImplementedError", kind |-> "NotSupported"]
OSError == [cls |-> "OSError", kind |-> "OSError"]

NoResult == [how |-> "none", code |-> 0, exc |-> NoExc]
Running == [how |-> "running", code |-> 0, exc |-> NoExc]

\* main(): _main() returned, or raised exc. Only CmdException is caught and
\* turned into exit(message), a SystemExit with status 1; any other
\* exception leaves main() as it was raised.
MainResult(exc) ==
    IF exc.cls = "none" THEN [how |-> "returned", code |-> 0, exc |-> exc]
    ELSE IF exc.cls = "CmdException"
         THEN [how |-> "SystemExit", code |-> 1, exc |-> exc]
    ELSE [how |-> "uncaught", code |-> 1, exc |-> exc]

-----------------------------------------------------------------------------
(* template                                                                *)

\* the content of the bundled co2mpas_template.xlsx
TemplateData == "template"

\* fpath = os.path.abspath(fpath), '.xlsx' appended unless it ends with it
TemplatePath(raw) ==
    LET a == AbsPath(raw) IN IF EndsWithXlsx(a) THEN a ELSE AddXlsx(a)

\* (mutant) --force is not consulted: an existing destination is refused
TemplateRefusal_IgnoresForce(f, fpath, force) ==
    IF Exists(f, fpath) THEN "AlreadyExists"
    ELSE "none"

\* the two checks of _cmd_template, in the order of the code: the failure
\* kind raised for fpath, or "none"
TemplateRefusal(f, fpath, force) ==
    IF Exists(f, fpath) /\ ~force THEN "AlreadyExists"
    ELSE IF IsDir(f, fpath) THEN "InvalidTarget"
    ELSE "none"

\* (mutant) a refusal undoes the loop: the files written so far are removed
RECURSIVE TemplateLoop_RollsBack(_, _, _, _, _)
TemplateLoop_RollsBack(f, paths, force, i, w) ==
    IF i > Len(paths) THEN [fs |-> f, exc |-> NoExc, written |-> w, at |-> 0]
    ELSE LET fpath == TemplatePath(paths[i])
             kind  == TemplateRefusal(f, fpath, force)
         IN  IF kind # "none"
             THEN [fs |-> [q \in DOMAIN f |->
                             IF q \in {w[j] : j \in 1..Len(w)} THEN Absent ELSE f[q]],
                   exc |-> CmdException(kind), written |-> <<>>, at |-> i]
             ELSE IF ~CanOpenForWrite(f, fpath)
             THEN [fs |-> f, exc |-> OSError, written |-> w, at |-> i]
             ELSE TemplateLoop_RollsBack(WriteFile(f, fpath, TemplateData), paths,
                                         force, i + 1, Append(w, fpath))

\* the loop of _cmd_template from its i-th path on: the file system it
\* leaves, the exception it raises, the paths it wrote (w) and the index of
\* the path it raised at (0: none)
RECURSIVE TemplateLoop(_, _, _, _, _)
TemplateLoop(f, paths, force, i, w) ==
    IF i > Len(paths) THEN [fs |-> f, exc |-> NoExc, written |-> w, at |-> 0]
    ELSE LET fpath == TemplatePath(paths[i])
             kind  == TemplateRefusal(f, fpath, force)
         IN  IF kind # "none"
             THEN [fs |-> f, exc |-> CmdException(kind), written |-> w, at |-> i]
             ELSE IF ~CanOpenForWrite(f, fpath)
             THEN [fs |-> f, exc |-> OSError, written |-> w, at |-> i]
             ELSE TemplateLoop(WriteFile(f, fpath, TemplateData), paths, force,
                               i + 1, Append(w, fpath))

-----------------------------------------------------------------------------
(* example                                                                 *)

\* pkg_resources.resource_listdir(__name__, 'demo_input'): the bundled demo
\* files, in no particular order
DemoListing == {<<"b", Dot, "xlsx">>, <<"a", Dot, "xlsx">>}

\* the content of a bundled demo file
DemoData(name) == name[1]

\* the order of the characters the names are made of
TokenRank(t) ==
    CASE t = Dot -> 1 [] t = Sep -> 2 [] t = "a" -> 3 [] t = "b" -> 4
      [] t = "xlsx" -> 5 [] OTHER -> 6

\* name1 < name2 as Python compares strings
RECURSIVE StrLess(_, _, _)
StrLess(n1, n2, i) ==
    IF i > Len(n2) THEN FALSE
    ELSE IF i > Len(n1) THEN TRUE
    ELSE IF n1[i] = n2[i] THEN StrLess(n1, n2, i + 1)
    ELSE TokenRank(n1[i]) < TokenRank(n2[i])

\* sorted(...) of a set of names
RECURSIVE SortedNames(_)
SortedNames(S) ==
    IF S = {} THEN <<>>
    ELSE LET m == CHOOSE x \in S : \A y \in S \ {x} : StrLess(x, y, 1)
         IN  <<m>> \o SortedNames(S \ {m})

\* (mutant) the destination is only tested for existence
ExampleRefusal_NoDirCheck(f, dst) ==
    IF ~Exists(f, dst) THEN "NotFound"
    ELSE "none"

\* the validation of the destination folder in _cmd_example
ExampleRefusal(f, dst) ==
    IF ~Exists(f, dst) THEN "NotFound"
    ELSE IF ~IsDir(f, dst) THEN "InvalidTarget"
    ELSE "none"

\* whether the loop of _cmd_example skips the demo file bound for dst_fpath
ExampleSkips(f, dst_fpath, force) == Exists(f, dst_fpath) /\ ~force

\* the loop of _cmd_example over the sorted demo files, from the i-th on
RECURSIVE ExampleLoop(_, _, _, _, _, _)
ExampleLoop(f, dst, names, force, i, w) ==
    IF i > Len(names) THEN [fs |-> f, exc |-> NoExc, written |-> w, at |-> 0]
    ELSE LET dst_fpath == PathJoin(dst, names[i])
         IN  IF ExampleSkips(f, dst_fpath, force)
             THEN ExampleLoop(f, dst, names, force, i + 1, w)
             ELSE IF ~CanOpenForWrite(f, dst_fpath)
             THEN [fs |-> f, exc |-> OSError, written |-> w, at |-> i]
             ELSE ExampleLoop(WriteFile(f, dst_fpath, DemoData(names[i])), dst,
                              names, force, i + 1, Append(w, dst_fpath))

\* _cmd_example
ExampleRun(f, folder, force) ==
    LET dst  == AbsPath(folder)
        kind == ExampleRefusal(f, dst)
    IN  IF kind # "none"
        THEN [fs |-> f, exc |-> CmdException(kind), written |-> <<>>, at |-> 0]
        ELSE ExampleLoop(f, dst, SortedNames(DemoListing), force, 1, <<>>)

-----------------------------------------------------------------------------
(* simulate                                                                *)

\* (mutant) the folder is taken as given, the picker is never shown
PromptNeeded_Never(f, folder) == FALSE

\* the condition of the while loop of _prompt_folder: the directory picker
\* is shown while folder is a non-empty string that is no directory
PromptNeeded(f, folder) == Len(folder) > 0 /\ ~IsDir(f, AbsPath(folder))

\* the call process_folder_files(input_folder, output_folder, ...)
PipelineCall(c, input_folder, output_folder) ==
    [input_folder |-> input_folder, output_folder |-> output_folder,
     plot_workflow |-> c.plot, hide_warn_msgbox |-> c.nowarn,
     gen_outfiles_per_vehicle |-> c.more]

\* the prompted folder names so far, repetitions of one prompt collapsed
Asked(asked, folder_name) ==
    IF Len(asked) > 0 /\ asked[Len(asked)] = folder_name THEN asked
    ELSE Append(asked, folder_name)

\* _run_simulation from the test of the while loop of the _prompt_folder
\* call for folder_name on, up to the next directory picker or to its end
RECURSIVE RunSimulation(_, _, _, _, _, _, _)
RunSimulation(f, c, folder_name, folder, input_folder, asked, cl) ==
    IF PromptNeeded(f, folder)
    THEN [sim |-> [pc |-> IF folder_name = "INPUT" THEN "ask_in" ELSE "ask_out",
                   folder |-> folder, input_folder |-> input_folder,
                   asked |-> Asked(asked, folder_name)],
          calls |-> cl, result |-> Running]
    ELSE IF folder_name = "INPUT"
    THEN RunSimulation(f, c, "OUTPUT", c.O, AbsPath(folder), asked, cl)
    ELSE [sim |-> [pc |-> "done", folder |-> folder,
                   input_folder |-> input_folder, asked |-> asked],
          calls |-> Append(cl, PipelineCall(c, input_folder, AbsPath(folder))),
          result |-> MainResult(NoExc)]

\* the answer of eu.diropenbox: None (the user cancelled) raises 'User
\* abort.', any other answer is tested by the while loop again
PromptAnswered(f, c, s, answer, cl) ==
    IF Len(answer) = 0
    THEN [sim |-> [s EXCEPT !.pc = "done", !.folder = answer], calls |-> cl,
          result |-> MainResult(CmdException("UserAbort"))]
    ELSE RunSimulation(f, c, IF s.pc = "ask_in" THEN "INPUT" ELSE "OUTPUT",
                       answer, s.input_folder, s.asked, cl)

SimIdle == [pc |-> "idle", folder |-> <<>>, input_folder |-> <<>>, asked |-> <<>>]

-----------------------------------------------------------------------------
(* The command lines and the file systems of the model.                    *)

P_t == <<Sep, "w", Sep, "t", Dot, "xlsx">>
P_in == <<Sep, "w", Sep, "in">>
P_a == <<Sep, "w", Sep, "in", Sep, "a", Dot, "xlsx">>
P_b == <<Sep, "w", Sep, "in", Sep, "b", Dot, "xlsx">>
P_out == <<Sep, "w", Sep, "out">>
P_gone == <<Sep, "w", Sep, "gone">>

FsPaths == {Cwd, P_t, P_in, P_a, P_b, P_out}

\* each of --plot-workflow, --no-warn-gui, --more-output given alone
FlagChoices == {<<TRUE, FALSE, FALSE>>, <<FALSE, TRUE, FALSE>>,
                <<FALSE, FALSE, TRUE>>}

\* a file that was there before any command ran
OldFile == File("old")

\* a child exists only in a parent that is a directory
FsConsistent(f) ==
    \A p \in DOMAIN f : f[p] # Absent => IsDir(f, DirName(p))

InitialFs ==
    {f \in [FsPaths -> {Absent, Dir, OldFile}] :
        /\ f[Cwd] = Dir
        /\ f[P_out] = Dir
        /\ FsConsistent(f)}

\* <excel-file-path> arguments: t, t.xlsx, ./in/a
TemplateArgs ==
    {<<"t">>, <<"t", Dot, "xlsx">>, <<Dot, Sep, "in", Sep, "a">>}

\* <folder> arguments: in, ./gone
FolderArgs == {<<"in">>, <<Dot, Sep, "gone">>}

\* -I and -O values: ./in, gone, '' and ./out, gone
InputArgs == {<<Dot, Sep, "in">>, <<"gone">>, <<>>}
OutputArgs == {<<Dot, Sep, "out">>, <<"gone">>}

\* what the user may pick in the directory dialog: nothing, or a path
PickerAnswers == {<<>>, P_in, P_out, P_gone}

SeqsUpTo(S, n) == UNION {[1..k -> S] : k \in 1..n}

Opts(name) ==
    [name |-> name, paths |-> <<>>, folder |-> <<>>, force |-> FALSE,
     I |-> <<>>, O |-> <<>>, plot |-> FALSE, nowarn |-> FALSE, more |-> FALSE]

-----------------------------------------------------------------------------
(* The parts of the state a specification does not use.                    *)

\* no command line has been run
CliIdle ==
    /\ fs = [p \in {Cwd} |-> Dir]
    /\ pre = fs
    /\ cmd = Opts("none")
    /\ result = NoResult
    /\ written = <<>>
    /\ sim = SimIdle
    /\ calls = <<>>

\* model_selector has not been called
SelIdle ==
    /\ co = <<>>
    /\ sel = [pc |-> "idle"]

\* get_models has not been called
GmIdle == gm = [pc |-> "idle"]

\* calibrate_model_params has not been called
CalIdle == cal = [pc |-> "idle"]

\* no formula has been called
FnIdle == fn = [pc |-> "idle"]
DocIdle == doc = [pc |-> "idle"]
CpIdle == cp = [pc |-> "idle"]

-----------------------------------------------------------------------------
(* The commands, as main() runs them.                                      *)

NoCommandRuns == result.how # "running"

StartCli(c) ==
    /\ NoCommandRuns
    /\ cmd' = c
    /\ pre' = fs
    /\ UNCHANGED <<selVars, gmVars, calVars, fnVars, docVars, cpVars>>

\* co2mpas template [--force] <excel-file-path> ...
CmdTemplate ==
    \E paths \in SeqsUpTo(TemplateArgs, MaxPaths), force \in BOOLEAN :
        LET c == [Opts("template") EXCEPT !.paths = paths, !.force = force]
        IN  \E r \in {TemplateLoop(fs, paths, force, 1, <<>>)} :
            /\ StartCli(c)
            /\ fs' = r.fs
            /\ written' = r.written
            /\ result' = MainResult(r.exc)
            /\ sim' = SimIdle
            /\ calls' = <<>>

\* co2mpas example [--force] <folder>
CmdExample ==
    \E folder \in FolderArgs, force \in BOOLEAN :
        LET c == [Opts("example") EXCEPT !.folder = folder, !.force = force]
        IN  \E r \in {ExampleRun(fs, folder, force)} :
            /\ StartCli(c)
            /\ fs' = r.fs
            /\ written' = r.written
            /\ result' = MainResult(r.exc)
            /\ sim' = SimIdle
            /\ calls' = <<>>

\* co2mpas ipynb [--force] <folder>
CmdIpynb ==
    \E force \in BOOLEAN :
        LET c == [Opts("ipynb") EXCEPT !.folder = <<"in">>, !.force = force]
        IN  /\ StartCli(c)
            /\ result' = MainResult(NotImplementedError)
            /\ written' = <<>>
            /\ sim' = SimIdle
            /\ calls' = <<>>
            /\ UNCHANGED fs

\* co2mpas [simulate] [--more-output] [--no-warn-gui] [--plot-workflow]
\*         [-I <folder>] [-O <folder>], up to its first directory picker
CmdSimulate ==
    \E i \in InputArgs, o \in OutputArgs, flags \in FlagChoices :
        LET c == [Opts("simulate") EXCEPT !.I = i, !.O = o, !.plot = flags[1],
                                          !.nowarn = flags[2], !.more = flags[3]]
        IN  \E r \in {RunSimulation(fs, c, "INPUT", i, <<>>, <<>>, <<>>)} :
            /\ StartCli(c)
            /\ sim' = r.sim
            /\ calls' = r.calls
            /\ result' = r.result
            /\ written' = <<>>
            /\ UNCHANGED fs

\* the user answers the directory picker of a running simulate command
AnswerPrompt ==
    /\ result.how = "running"
    /\ sim.pc \in {"ask_in", "ask_out"}
    /\ \E answer \in PickerAnswers :
          \E r \in {PromptAnswered(fs, cmd, sim, answer, calls)} :
              /\ sim' = r.sim
              /\ calls' = r.calls
              /\ result' = r.result
    /\ UNCHANGED <<fs, pre, cmd, written>>
    /\ UNCHANGED <<selVars, gmVars, calVars, fnVars, docVars, cpVars>>

InitCli ==
    /\ fs \in InitialFs
    /\ pre = fs
    /\ cmd = Opts("none")
    /\ result = NoResult
    /\ written = <<>>
    /\ sim = SimIdle
    /\ calls = <<>>
    /\ SelIdle
    /\ GmIdle
    /\ CalIdle
    /\ FnIdle
    /\ DocIdle
    /\ CpIdle

NextCli ==
    \/ CmdTemplate
    \/ CmdExample
    \/ CmdIpynb
    \/ CmdSimulate
    \/ AnswerPrompt

SpecCli == InitCli /\ [][NextCli]_vars

-----------------------------------------------------------------------------
(* Values, calibration outputs and the comparison model.                   *)

\* every value of a dictionary is a record of one shape: a calibrated model
\* (of key s and value a: two models are equal when both are; a = 0: fitted
\* on all cycles, b the output whose initial guess was used), a measured or
\* predicted
\* series (the number a stands for it), an error-coefficient record
\* (mean_absolute_error a, correlation_coefficient b), an empty dictionary,
\* a string, the tuple (k, e) of AT_gear_shifting_model
V(tag, str, a, b) == [tag |-> tag, s |-> str, a |-> a, b |-> b]

ModelOf(key, i) == V("model", key, i, 0)
Series(key, x) == V("series", key, x, 0)
Coeff(mae, corr) == V("coeff", "", mae, corr)
EmptyDict == V("empty", "", 0, 0)
Str(x) == V("str", x, 0, 0)

\* the descriptors of comparison_model(), in the order they are appended
ModelTargets ==
    << [models |-> <<"max_gear">>,
        targets |-> <<>>, get_inputs |-> "get_inputs", post |-> FALSE],
       [models |-> <<"engine_temperature_regression_model">>,
        targets |-> <<"engine_temperatures">>,
        get_inputs |-> "get_inputs", post |-> FALSE],
       [models |-> <<"start_stop_model">>,
        targets |-> <<"on_engine">>,
        get_inputs |-> "get_inputs", post |-> FALSE],
       [models |-> <<"cold_start_speed_model", "idle_engine_speed",
                     "engine_thermostat_temperature">>,
        targets |-> <<"engine_speeds_out">>,
        get_inputs |-> "get_inputs", post |-> FALSE],
       [models |-> <<"co2_params">>,
        targets |-> <<"co2_emissions">>,
        get_inputs |-> "get_inputs", post |-> FALSE],
       [models |-> <<"co2_params">>,
        targets |-> <<"co2_emissions">>,
        get_inputs |-> "get_inputs", post |-> TRUE],
       [models |-> <<"alternator_charging_currents", "start_demand",
                     "max_battery_charging_current", "electric_load",
                     "alternator_status_model">>,
        targets |-> <<"alternator_currents", "battery_currents">>,
        get_inputs |-> "get_inputs", post |-> FALSE],
       [models |-> <<"AT_gear_shifting_model", "correct_gear",
                     "upper_bound_engine_speed">>,
        targets |-> <<"gears">>,
        get_inputs |-> "AT_get_inputs", post |-> FALSE] >>

Range(q) == {q[i] : i \in 1..Len(q)}

\* m = set(chain.from_iterable(m['models'] for m in _model_targets))
ModelsToExtract == UNION {Range(ModelTargets[f].models) : f \in 1..Len(ModelTargets)}

\* methods_ids of get_models, in the order of the dictionary display
MethodsIds ==
    << <<"CMV_error_coefficients", "CMV">>,
       <<"CMV_Cold_Hot_error_coefficients", "CMV_Cold_Hot">>,
       <<"GSPV_error_coefficients", "GSPV">>,
       <<"GSPV_Cold_Hot_error_coefficients", "GSPV_Cold_Hot">>,
       <<"DT_VA_error_coefficients", "DT_VA">>,
       <<"DT_VAT_error_coefficients", "DT_VAT">>,
       <<"DT_VAP_error_coefficients", "DT_VAP">>,
       <<"DT_VATP_error_coefficients", "DT_VATP">> >>

\* the place of a string among the strings the code compares with <:
\* the strategy names, and 'ALL' and the cycle names
StrRank(x) ==
    CASE x = "CMV" -> 1 [] x = "CMV_Cold_Hot" -> 2 [] x = "DT_VA" -> 3
      [] x = "DT_VAP" -> 4 [] x = "DT_VAT" -> 5 [] x = "DT_VATP" -> 6
      [] x = "GSPV" -> 7 [] x = "GSPV_Cold_Hot" -> 8
      [] x = "ALL" -> 11 [] x = "WLTP-H" -> 12 [] x = "WLTP-L" -> 13
      [] OTHER -> 20

-----------------------------------------------------------------------------
(* Scores and the ordering of heap entries.                                *)

\* a score is a float: the fraction n/d, or not-a-number; fresh tells the
\* object numpy makes for a not-a-number mean from the constant np.nan
Num(n, d) == [nan |-> FALSE, fresh |-> FALSE, n |-> n, d |-> d]
NpNan == [nan |-> TRUE, fresh |-> FALSE, n |-> 0, d |-> 1]
FreshNan == [nan |-> TRUE, fresh |-> TRUE, n |-> 0, d |-> 1]

\* x == y as the comparison of tuples finds it: the same object, or equal
\* numbers; a not-a-number equals nothing but the very object it is
FloatEq(x, y) ==
    \/ x.nan /\ y.nan /\ ~x.fresh /\ ~y.fresh
    \/ ~x.nan /\ ~y.nan /\ x.n * y.d = y.n * x.d

\* x < y: false whenever one of them is not-a-number
FloatLt(x, y) == ~x.nan /\ ~y.nan /\ x.n * y.d < y.n * x.d

\* (err, co_i, m) compared without the number of extracted models
CandidateCmp_NoLen(x, y) ==
    IF ~FloatEq(x.err, y.err)
    THEN IF FloatLt(x.err, y.err) THEN "lt" ELSE "ge"
    ELSE IF x.co_i # y.co_i
         THEN IF StrRank(x.co_i) < StrRank(y.co_i) THEN "lt" ELSE "ge"
    ELSE IF x.m = y.m THEN "ge"
    ELSE "TypeError"

\* x < y for the tuples pushed by error_fun, (err, len(e_mods), co_i, m):
\* "lt", "ge", or "TypeError" when the comparison reaches two unequal
\* dictionaries m
CandidateCmp(x, y) ==
    IF ~FloatEq(x.err, y.err)
    THEN IF FloatLt(x.err, y.err) THEN "lt" ELSE "ge"
    ELSE IF x.len # y.len THEN IF x.len < y.len THEN "lt" ELSE "ge"
    ELSE IF x.co_i # y.co_i
         THEN IF StrRank(x.co_i) < StrRank(y.co_i) THEN "lt" ELSE "ge"
    ELSE IF x.m = y.m THEN "ge"
    ELSE "TypeError"

\* (e[0] / e[1], k) compared without the tuple e
StrategyCmp_RatioThenName(x, y) ==
    IF ~FloatEq(x.ratio, y.ratio)
    THEN IF FloatLt(x.ratio, y.ratio) THEN "lt" ELSE "ge"
    ELSE IF StrRank(x.k) < StrRank(y.k) THEN "lt" ELSE "ge"

\* x < y for the tuples pushed by get_models, (e[0] / e[1], e, k)
StrategyCmp(x, y) ==
    IF ~FloatEq(x.ratio, y.ratio)
    THEN IF FloatLt(x.ratio, y.ratio) THEN "lt" ELSE "ge"
    ELSE IF x.e[1] # y.e[1] THEN IF x.e[1] < y.e[1] THEN "lt" ELSE "ge"
    ELSE IF x.e[2] # y.e[2] THEN IF x.e[2] < y.e[2] THEN "lt" ELSE "ge"
    ELSE IF StrRank(x.k) < StrRank(y.k) THEN "lt" ELSE "ge"

TupleCmp(x, y) ==
    IF x.kind = "strategy" THEN StrategyCmp(x, y) ELSE CandidateCmp(x, y)

-----------------------------------------------------------------------------
(* heapq, with positions counted from 1.                                   *)

HeapOk(h) == [ok |-> TRUE, heap |-> h]
HeapTypeError(h) == [ok |-> FALSE, heap |-> h]

\* heapq._siftdown(heap, startpos, pos) with newitem taken out of heap[pos]
RECURSIVE SiftDown(_, _, _, _)
SiftDown(h, startpos, pos, newitem) ==
    IF pos > startpos
    THEN LET parentpos == pos \div 2
             c == TupleCmp(newitem, h[parentpos])
         IN  IF c = "TypeError" THEN HeapTypeError(h)
             ELSE IF c = "lt"
             THEN SiftDown([h EXCEPT ![pos] = h[parentpos]], startpos,
                           parentpos, newitem)
             ELSE HeapOk([h EXCEPT ![pos] = newitem])
    ELSE HeapOk([h EXCEPT ![pos] = newitem])

\* heapq.heappush(heap, item)
HeapPush(h, item) == SiftDown(Append(h, item), 1, Len(h) + 1, item)

\* heapq._siftup(heap, pos) with newitem taken out of heap[pos]
RECURSIVE SiftUp(_, _, _, _)
SiftUp(h, startpos, pos, newitem) ==
    LET childpos == 2 * pos
        rightpos == childpos + 1
    IN  IF childpos <= Len(h)
        THEN LET c == IF rightpos <= Len(h)
                      THEN TupleCmp(h[childpos], h[rightpos]) ELSE "lt"
                 child == IF c = "lt" THEN childpos ELSE rightpos
             IN  IF c = "TypeError" THEN HeapTypeError(h)
                 ELSE SiftUp([h EXCEPT ![pos] = h[child]], startpos, child,
                             newitem)
        ELSE SiftDown(h, startpos, pos, newitem)

\* heapq.heappop(heap): the heap that is left (the item returned is h[1])
HeapPop(h) ==
    IF Len(h) = 1 THEN HeapOk(<<>>)
    ELSE LET lastelt == h[Len(h)]
             rest == SubSeq(h, 1, Len(h) - 1)
         IN  SiftUp([rest EXCEPT ![1] = lastelt], 1, 1, lastelt)

\* heap_flush(heap): the items popped one after the other, or a TypeError
RECURSIVE HeapFlush(_, _)
HeapFlush(h, out) ==
    IF Len(h) = 0 THEN [ok |-> TRUE, heap |-> out]
    ELSE LET r == HeapPop(h)
         IN  IF ~r.ok THEN HeapTypeError(out)
             ELSE HeapFlush(r.heap, Append(out, h[1]))

-----------------------------------------------------------------------------
(* get_models                                                              *)

Has(dict, k) == k \in DOMAIN dict

\* dict.update / dict[k] = v
Update(dict, other) ==
    [k \in DOMAIN dict \cup DOMAIN other |->
        IF k \in DOMAIN other THEN other[k] ELSE dict[k]]

Put(dict, k, v) == [x \in DOMAIN dict \cup {k} |-> IF x = k THEN v ELSE dict[x]]

EmptyMap == [k \in {} |-> EmptyDict]

\* e = calibration_outputs.get(e, None); if e: ...
Truthy(o, k) == Has(o, k) /\ o[k].tag # "empty"

\* the tuple get_models pushes for the error-coefficient record e of
\* strategy k
StrategyEntry(e, k) ==
    [kind |-> "strategy", ratio |-> Num(e.a, e.b), e |-> <<e.a, e.b>>, k |-> k]

\* the loop over methods_ids, from its i-th item on
RECURSIVE StrategyHeap(_, _, _)
StrategyHeap(o, i, h) ==
    IF i > Len(MethodsIds) THEN h
    ELSE IF Truthy(o, MethodsIds[i][1])
    THEN StrategyHeap(o, i + 1,
             HeapPush(h, StrategyEntry(o[MethodsIds[i][1]], MethodsIds[i][2])).heap)
    ELSE StrategyHeap(o, i + 1, h)

\* calibration_outputs after get_models, whose heap of strategies is h:
\* models = {} is a dictionary of its own and every assignment of get_models
\* is one to models
OutputsAfterGetModels(o, h) == o

\* get_models(calibration_outputs, models_to_extract): the dictionary it
\* returns, or the KeyError of models[k] = calibration_outputs[k], and
\* calibration_outputs after the call
GetModels(o, m) ==
    LET models == [k \in m \cap DOMAIN o |-> o[k]]
        h == StrategyHeap(o, 1, <<>>)
        after == OutputsAfterGetModels(o, h)
    IN  IF Len(h) = 0 THEN [exc |-> "none", models |-> models, after |-> after]
        ELSE IF ~Has(o, h[1].k)
        THEN [exc |-> "KeyError", models |-> models, after |-> o]
        ELSE [exc |-> "none",
              models |-> Put(Put(models, h[1].k, o[h[1].k]),
                             "AT_gear_shifting_model",
                             V("at", h[1].k, h[1].e[1], h[1].e[2])),
              after |-> after]

-----------------------------------------------------------------------------
(* compare_result and error_fun                                            *)

RECURSIVE Gcd(_, _)
Gcd(a, b) == IF b = 0 THEN a ELSE Gcd(b, a % b)

\* the float n/d, in lowest terms
Frac(n, d) == LET g == Gcd(n, d) IN IF g = 0 THEN Num(0, 1) ELSE Num(n \div g, d \div g)

Abs(x) == IF x < 0 THEN -x ELSE x

\* np.average(err, weights=weights) / np.mean(err) of a non-empty list of
\* floats: a fresh not-a-number if one of them is, else their sum over
\* their number
RECURSIVE SumFloats(_, _)
SumFloats(xs, i) ==
    IF i > Len(xs) THEN Num(0, 1)
    ELSE LET r == SumFloats(xs, i + 1)
         IN  Frac(xs[i].n * r.d + r.n * xs[i].d, xs[i].d * r.d)

Mean(xs) ==
    IF \E i \in 1..Len(xs) : xs[i].nan THEN FreshNan
    ELSE LET t == SumFloats(xs, 1) IN Frac(t.n, t.d * Len(xs))

\* the list err of compare_result: the mean absolute error of every target
\* id that both results have
RECURSIVE TargetErrors(_, _, _, _)
TargetErrors(target_ids, model_results, target_results, i) ==
    IF i > Len(target_ids) THEN <<>>
    ELSE LET t == target_ids[i]
             tail == TargetErrors(target_ids, model_results, target_results, i + 1)
         IN  IF Has(model_results, t) /\ Has(target_results, t)
             THEN <<Num(Abs(target_results[t].a - model_results[t].a), 1)>> \o tail
             ELSE tail

\* compare_result(target_ids, model_results, target_results)
CompareResult(target_ids, model_results, target_results) ==
    LET err == TargetErrors(target_ids, model_results, target_results, 1)
    IN  IF Len(err) > 0 THEN Mean(err) ELSE NpNan

\* get_inputs(extracted_models, outputs, models, targets, **kwargs)
GetInputs(extracted_models, outputs, models, targets) ==
    Update([k \in DOMAIN outputs \ Range(targets) |-> outputs[k]],
           [m \in Range(models) |-> extracted_models[m]])

\* outputs after get_inputs, were inputs the dictionary outputs itself
OutputsAfterGetInputs_Shared(extracted_models, outputs, models, targets) ==
    Update(outputs, [m \in Range(models) |-> extracted_models[m]])

\* outputs after get_inputs: inputs is a dictionary of its own, made by the
\* comprehension, and inputs.update writes to it
OutputsAfterGetInputs(extracted_models, outputs, models, targets) == outputs

\* get_i(e_mods, t, **d): AT_get_inputs(extracted_models, *args, **kwargs)
\* receives models and targets in kwargs and calls
\* get_inputs(extracted_models, *args) without them, which is a TypeError
GetI(d, e_mods, t) ==
    IF d.get_inputs = "AT_get_inputs"
    THEN [exc |-> "TypeError", inputs |-> EmptyMap]
    ELSE [exc |-> "none", inputs |-> GetInputs(e_mods, t, d.models, d.targets)]

\* all(k not in t for k in trgs)
NoTarget(t, trgs) == \A k \in Range(trgs) : ~Has(t, k)

\* the records of res_t (given by their places in co) that error_fun does
\* not skip
Scorable(records, res_t, trgs) ==
    {j \in Range(res_t) : ~NoTarget(records[j], trgs)}

\* the loop of error_fun over res_t from its i-th record on; preds[j] is
\* what dsp.dispatch(...)[1] holds for record j: the list err, the records
\* compared against, the exception raised, and the records after the calls
\* of get_i
RECURSIVE ErrorLoop(_, _, _, _, _, _, _, _)
ErrorLoop(d, records, e_mods, res_t, preds, i, err, vs) ==
    IF i > Len(res_t)
    THEN [exc |-> "none", err |-> err, vs |-> vs, records |-> records]
    ELSE LET t == records[res_t[i]]
         IN  IF NoTarget(t, d.targets)
             THEN ErrorLoop(d, records, e_mods, res_t, preds, i + 1, err, vs)
             ELSE IF d.get_inputs = "AT_get_inputs"
             THEN [exc |-> GetI(d, e_mods, t).exc, err |-> err, vs |-> vs,
                   records |-> records]
             ELSE ErrorLoop(d,
                      [records EXCEPT ![res_t[i]] =
                          OutputsAfterGetInputs(e_mods, t, d.models, d.targets)],
                      e_mods, res_t, preds, i + 1,
                      Append(err, CompareResult(d.targets, preds[res_t[i]], t)),
                      Append(vs, res_t[i]))

\* any(m not in e_mods for m in mods): error_fun returns without a push
LacksModel(d, e_mods) == \E m \in Range(d.models) : ~Has(e_mods, m)

\* the tuple (err, len(e_mods), co_i, m) that error_fun pushes; src (the
\* place in co of the candidate, 0 for 'ALL') and vs (the records it was
\* compared against) are not part of the tuple, they tell where it is from
Candidate(d, e_mods, co_i, src, err, vs) ==
    [kind |-> "candidate",
     err |-> IF Len(err) > 0 THEN Mean(err) ELSE NpNan,
     len |-> Cardinality(DOMAIN e_mods),
     co_i |-> co_i,
     m |-> [k \in Range(d.models) \cap DOMAIN e_mods |-> e_mods[k]],
     src |-> src, vs |-> vs]

\* error_fun(e_mods, res_t, co_i): the heap after it, the tuple it pushed
\* (pushed = TRUE), the exception it raised and the records after it
ErrorFun(d, records, h, e_mods, res_t, co_i, src, preds) ==
    IF LacksModel(d, e_mods)
    THEN [exc |-> "none", heap |-> h, pushed |-> FALSE, records |-> records]
    ELSE LET r == ErrorLoop(d, records, e_mods, res_t, preds, 1, <<>>, <<>>)
         IN  IF r.exc # "none"
             THEN [exc |-> r.exc, heap |-> h, pushed |-> FALSE,
                   records |-> r.records]
             ELSE LET hp == HeapPush(h, Candidate(d, e_mods, co_i, src, r.err, r.vs))
                  IN  [exc |-> IF hp.ok THEN "none" ELSE "TypeError",
                       heap |-> hp.heap, pushed |-> hp.ok, records |-> r.records]

\* co, by places in co, in the place of co[:i] + co[i + 1:]
Others_Whole(n, i) == [k \in 1..n |-> k]

\* co[:i] + co[i + 1:], by places in co
Others(n, i) == [k \in 1..(n - 1) |-> IF k < i THEN k ELSE k + 1]

\* co, by places in co
AllOf(n) == [k \in 1..n |-> k]

-----------------------------------------------------------------------------
(* calibrate_co2_params_with_all_calibration_cycles                        *)

\* check(data)
HasGuessAndBounds(o) ==
    Has(o, "co2_params_initial_guess") /\ Has(o, "co2_params_bounds")

\* the first record of the two generators of `its` that yields one: the
\* place in co of the record `data`, 0 when there is none
CalibrationData(records, c_name) ==
    LET named == {j \in 1..Len(records) :
                    records[j]["cycle_name"].s = c_name /\ HasGuessAndBounds(records[j])}
        any == {j \in 1..Len(records) : HasGuessAndBounds(records[j])}
        first(S) == CHOOSE j \in S : \A k \in S : j <= k
    IN  IF named # {} THEN first(named)
        ELSE IF any # {} THEN first(any)
        ELSE 0

\* post(models, *co) of the descriptor with 'post_processing': None, the
\* dictionary {'co2_params': p}, or the KeyError of the lookup of
\* 'engine_temperature_regression_model' in the origins
PostProcessing(origin, records) ==
    IF Len(records) <= 1 THEN [exc |-> "none", e_mods |-> EmptyMap]
    ELSE IF ~Has(origin, "engine_temperature_regression_model")
    THEN [exc |-> "KeyError", e_mods |-> EmptyMap]
    ELSE LET data == CalibrationData(records,
                         origin["engine_temperature_regression_model"])
         IN  IF data = 0 THEN [exc |-> "none", e_mods |-> EmptyMap]
             ELSE [exc |-> "none",
                   e_mods |-> [k \in {"co2_params"} |->
                                 V("model", "co2_params", 0, data)]]

\* post = d.get('post_processing', lambda *args: None)
Post(d, origin, records) ==
    IF d.post THEN PostProcessing(origin, records)
    ELSE [exc |-> "none", e_mods |-> EmptyMap]

\* a selection that passes over a heap whose first score is not a number
SelectBest_SkipsUndefined(d, h, models, origin) ==
    IF Len(h) = 0 \/ h[1].err.nan
    THEN [exc |-> "none", models |-> models, origin |-> origin]
    ELSE [exc |-> "none", models |-> Update(models, h[1].m),
          origin |-> Update(origin, [k \in Range(d.models) |-> h[1].co_i])]

\* a selection that records the cycle of the last tuple of the heap
SelectBest_OriginOfLast(d, h, models, origin) ==
    IF Len(h) = 0 THEN [exc |-> "none", models |-> models, origin |-> origin]
    ELSE [exc |-> "none", models |-> Update(models, h[1].m),
          origin |-> Update(origin, [k \in Range(d.models) |-> h[Len(h)].co_i])]

\* a selection that keeps the models and origins an earlier family entered
SelectBest_KeepsEarlier(d, h, models, origin) ==
    IF Len(h) = 0 THEN [exc |-> "none", models |-> models, origin |-> origin]
    ELSE [exc |-> "none", models |-> Update(h[1].m, models),
          origin |-> Update([k \in Range(d.models) |-> h[1].co_i], origin)]

\* if heap: models.update(heap[0][-1]); rank = [...heap_flush(heap)];
\* origin.update(dict.fromkeys(mods, rank[0][0])): the models and origins
\* after it, and the TypeError of a comparison made by heap_flush
SelectBest(d, h, models, origin) ==
    IF Len(h) = 0 THEN [exc |-> "none", models |-> models, origin |-> origin]
    ELSE LET merged == Update(models, h[1].m)
             rank == HeapFlush(h, <<>>)
         IN  IF ~rank.ok
             THEN [exc |-> "TypeError", models |-> merged, origin |-> origin]
             ELSE [exc |-> "none", models |-> merged,
                   origin |-> Update(origin,
                       [k \in Range(d.models) |-> rank.heap[1].co_i])]

-----------------------------------------------------------------------------
(* The calibration outputs of the model.                                   *)

CycleNames == {"WLTP-H", "WLTP-L"}

\* what a predicted series may be; a measured series is 0, so that the mean
\* absolute error of a prediction is the prediction itself
PredVals == {0, 1}

TargetKeys == UNION {Range(ModelTargets[f].targets) : f \in 1..Len(ModelTargets)}

CoeffKeys == {MethodsIds[i][1] : i \in 1..Len(MethodsIds)}

ETR == "engine_temperature_regression_model"

AlternatorModels == Range(ModelTargets[7].models)

Co2Data == {"co2_params_initial_guess", "co2_params_bounds", "co2_error_function"}

NoCoeffs == [k \in {} |-> EmptyDict]

\* the keys of a calibration output (cycle_name apart), with the error
\* coefficients it holds; the models of a shape with `same` are equal in
\* value in every output, those of the other shapes differ between outputs
Shape(keys, coeffs, same) == [keys |-> keys, coeffs |-> coeffs, same |-> same]

AtCoeffs == [k \in {"CMV_error_coefficients", "GSPV_error_coefficients"} |->
                IF k = "CMV_error_coefficients" THEN Coeff(1, 1) ELSE Coeff(2, 2)]

RecordShapes ==
    { Shape({}, NoCoeffs, FALSE),
      Shape({"max_gear"}, NoCoeffs, TRUE),
      Shape({"max_gear", ETR, "engine_temperatures"}, NoCoeffs, FALSE),
      Shape({ETR, "engine_temperatures"}, NoCoeffs, FALSE),
      Shape({ETR}, NoCoeffs, FALSE),
      Shape({ETR, "engine_temperatures", "co2_params", "co2_emissions"}
            \cup Co2Data, NoCoeffs, FALSE),
      Shape(AlternatorModels \cup {"alternator_currents", "battery_currents"},
            NoCoeffs, FALSE),
      Shape({"start_stop_model", "on_engine", "cold_start_speed_model",
             "idle_engine_speed", "engine_thermostat_temperature",
             "engine_speeds_out"}, NoCoeffs, FALSE),
      Shape({"correct_gear", "upper_bound_engine_speed", "CMV", "GSPV", "gears"},
            AtCoeffs, FALSE),
      Shape({"correct_gear", "upper_bound_engine_speed", "CMV", "GSPV"},
            AtCoeffs, FALSE),
      Shape({}, [k \in {"CMV_error_coefficients"} |-> Coeff(1, 1)], FALSE) }

\* the calibration output of the cycle `name` at place i of co
MkRecord(i, name, shape) ==
    [k \in shape.keys \cup DOMAIN shape.coeffs \cup {"cycle_name"} |->
        IF k = "cycle_name" THEN Str(name)
        ELSE IF k \in DOMAIN shape.coeffs THEN shape.coeffs[k]
        ELSE IF k \in TargetKeys THEN Series(k, 0)
        ELSE ModelOf(k, IF shape.same THEN 1 ELSE i + 1)]

\* co is one of the tuples of at most MaxRecords calibration outputs
IsCalibrationOutputs(records) ==
    \E n \in 0..MaxRecords :
        \E names \in [1..n -> CycleNames], shapes \in [1..n -> RecordShapes] :
            records = [i \in 1..n |-> MkRecord(i, names[i], shapes[i])]

\* what dsp.dispatch(inputs, trgs, shrink=True)[1] may hold of the targets
\* that the record t has: some of them, each with a predicted series
Predictions(trgs, t) ==
    UNION {[S -> {Series("", x) : x \in PredVals}] :
              S \in SUBSET (Range(trgs) \cap DOMAIN t)}

\* the predictions made for each record of `for`
AllPredictions(trgs, for) ==
    {p \in [for -> UNION {Predictions(trgs, co[j]) : j \in for}] :
        \A j \in for : DOMAIN p[j] \subseteq DOMAIN co[j]}

-----------------------------------------------------------------------------
(* model_selector, step by step.                                           *)

NoLast == [fam |-> 0]

\* em_rt, the first component of its items: get_models of every output,
\* up to the first that raises, and the outputs after the calls
RECURSIVE ExtractAll(_, _, _)
ExtractAll(records, i, em) ==
    IF i > Len(records) THEN [exc |-> "none", em |-> em, records |-> records]
    ELSE LET r == GetModels(records[i], ModelsToExtract)
         IN  IF r.exc # "none"
             THEN [exc |-> r.exc, em |-> em, records |-> records]
             ELSE ExtractAll([records EXCEPT ![i] = r.after], i + 1,
                             Append(em, r.models))

Raised(exc, where) ==
    [pc |-> "raised", exc |-> exc, where |-> where, fam |-> sel.fam,
     em |-> sel.em, models |-> sel.models, origin |-> sel.origin, last |-> NoLast]

\* models = {}; origin = {}; dsp, _model_targets = comparison_model();
\* em_rt = list(map(get, range(len(co)), co))
ExtractModels ==
    /\ sel.pc = "start"
    /\ \E r \in {ExtractAll(co, 1, <<>>)} :
          /\ sel' = IF r.exc # "none"
                    THEN [pc |-> "raised", exc |-> r.exc, where |-> "get_models",
                          fam |-> 0, em |-> r.em, models |-> EmptyMap,
                          origin |-> EmptyMap, last |-> NoLast]
                    ELSE [pc |-> "score", em |-> r.em, fam |-> 1, cand |-> 1,
                          heap |-> <<>>, models |-> EmptyMap, origin |-> EmptyMap,
                          last |-> NoLast]
          /\ co' = r.records
    /\ UNCHANGED <<cliVars, gmVars, calVars, fnVars, docVars, cpVars>>

\* the records for which a prediction is made when e_mods is scored
PredictedFor(d, e_mods, res_t) ==
    IF LacksModel(d, e_mods) \/ d.get_inputs = "AT_get_inputs" THEN {}
    ELSE Scorable(co, res_t, d.targets)

\* the outputs from place `from` of em_rt on for which error_fun does not
\* return at once
Candidates(d, em, from) == {i \in from..Len(em) : ~LacksModel(d, em[i])}

\* for v in em_rt: error_fun(*v)  -- the calls up to the next one that
\* scores a candidate, and that call
ScoreCandidate ==
    /\ sel.pc = "score"
    /\ \E d \in {ModelTargets[sel.fam]} :
       \E cs \in {Candidates(d, sel.em, sel.cand)} :
       \E i \in {c \in cs : \A c2 \in cs : c <= c2} :
       \E res_t \in {Others(Len(co), i)} :
           \E preds \in AllPredictions(d.targets, PredictedFor(d, sel.em[i], res_t)) :
           \E r \in {ErrorFun(d, co, sel.heap, sel.em[i], res_t,
                              co[i]["cycle_name"].s, i, preds)} :
               /\ sel' = IF r.exc # "none" THEN Raised(r.exc, "error_fun")
                         ELSE [sel EXCEPT !.heap = r.heap, !.cand = i + 1,
                                          !.last = NoLast]
               /\ co' = r.records
    /\ UNCHANGED <<cliVars, gmVars, calVars, fnVars, docVars, cpVars>>

\* the state after the body of `for d in _model_targets` for family fam
NextFamily(fam, h, r) ==
    IF r.exc # "none"
    THEN [Raised(r.exc, "heap_flush") EXCEPT !.models = r.models]
    ELSE [pc |-> IF fam = Len(ModelTargets) THEN "done" ELSE "score",
          em |-> sel.em, fam |-> IF fam = Len(ModelTargets) THEN fam ELSE fam + 1,
          cand |-> 1, heap |-> <<>>, models |-> r.models, origin |-> r.origin,
          last |-> [fam |-> fam, heap |-> h, models |-> sel.models,
                    origin |-> sel.origin]]

\* the calls of error_fun that are left (all return at once), then
\* e_mods = post(models, *co); if e_mods: error_fun(e_mods, co, 'ALL');
\* if heap: ...  -- the rest of the body of the loop over the descriptors
FinishFamily ==
    /\ sel.pc = "score"
    /\ Candidates(ModelTargets[sel.fam], sel.em, sel.cand) = {}
    /\ \E d \in {ModelTargets[sel.fam]} :
       \E p \in {Post(d, sel.origin, co)} :
           IF p.exc # "none"
           THEN sel' = Raised(p.exc, "post_processing") /\ co' = co
           ELSE IF DOMAIN p.e_mods = {}
           THEN /\ sel' = NextFamily(sel.fam, sel.heap,
                              SelectBest(d, sel.heap, sel.models, sel.origin))
                /\ co' = co
           ELSE \E preds \in AllPredictions(d.targets,
                                  PredictedFor(d, p.e_mods, AllOf(Len(co)))) :
                \E r \in {ErrorFun(d, co, sel.heap, p.e_mods, AllOf(Len(co)),
                                   "ALL", 0, preds)} :
                    /\ co' = r.records
                    /\ IF r.exc # "none" THEN sel' = Raised(r.exc, "error_fun")
                       ELSE \E b \in {SelectBest(d, r.heap, sel.models, sel.origin)} :
                               sel' = NextFamily(sel.fam, r.heap, b)
    /\ UNCHANGED <<cliVars, gmVars, calVars, fnVars, docVars, cpVars>>

InitSel ==
    /\ IsCalibrationOutputs(co)
    /\ sel = [pc |-> "start"]
    /\ CliIdle
    /\ GmIdle
    /\ CalIdle
    /\ FnIdle
    /\ DocIdle
    /\ CpIdle

NextSel ==
    \/ ExtractModels
    \/ ScoreCandidate
    \/ FinishFamily

SpecSel == InitSel /\ [][NextSel]_vars

-----------------------------------------------------------------------------
(* get_models on its own, over the error coefficients of three strategies. *)

\* the strategies whose error coefficients vary
Strategies == <<"CMV", "GSPV", "DT_VA">>

CoeffKey(k) == CHOOSE e \in CoeffKeys : \E i \in 1..Len(MethodsIds) : MethodsIds[i] = <<e, k>>

MaeVals == {0, 1, 2}
CorrVals == {1, 2}

\* what calibration_outputs holds under an error-coefficient key: nothing,
\* an empty record, or the two coefficients
NoEntry == V("absent", "", 0, 0)

CoeffChoices == {NoEntry, EmptyDict} \cup {Coeff(a, b) : a \in MaeVals, b \in CorrVals}

\* a calibration output with the chosen coefficients, and with the strategy
\* models themselves when withModels
StrategyOutput(choice, withModels) ==
    LET coeffs == {CoeffKey(Strategies[i]) : i \in {j \in 1..Len(Strategies) : choice[j] # NoEntry}}
        mods == IF withModels THEN Range(Strategies) \cup {"correct_gear"} ELSE {"correct_gear"}
        at(e) == CHOOSE i \in 1..Len(Strategies) : CoeffKey(Strategies[i]) = e
    IN  [k \in coeffs \cup mods \cup {"cycle_name"} |->
            IF k = "cycle_name" THEN Str("WLTP-H")
            ELSE IF k \in coeffs THEN choice[at(k)]
            ELSE ModelOf(k, 1)]

StrategyOutputs ==
    {StrategyOutput(c, w) : c \in [1..Len(Strategies) -> CoeffChoices], w \in BOOLEAN}

\* get_models(calibration_outputs, models_to_extract)
ApplyGetModels ==
    /\ gm.pc = "start"
    /\ \E r \in {GetModels(gm.o, ModelsToExtract)} :
          gm' = [pc |-> "done", o |-> gm.o, exc |-> r.exc, models |-> r.models]
    /\ UNCHANGED <<cliVars, selVars, calVars, fnVars, docVars, cpVars>>

InitGetModels ==
    /\ \E o \in StrategyOutputs : gm = [pc |-> "start", o |-> o]
    /\ CliIdle
    /\ SelIdle
    /\ CalIdle
    /\ FnIdle
    /\ DocIdle
    /\ CpIdle

NextGetModels == ApplyGetModels

SpecGetModels == InitGetModels /\ [][NextGetModels]_vars

-----------------------------------------------------------------------------
(* calibrate_model_params (engine/co2_emission.py).                        *)

\* the most evaluations of the error function one run of the local
\* minimiser makes
MaxEvals == 2

\* A parameter value is a float near a reference value: "unit" values have
\* the magnitude of 1.0 and below, where the machine epsilon EPS is at least
\* the spacing of the floats, and k counts EPS from the reference; "large"
\* values are so large that adding EPS rounds back to the value itself.
Val(c, k) == [c |-> c, k |-> k]

\* i - EPS and j + EPS, as float arithmetic rounds them
FloatSubEps(x) == IF x.c = "large" THEN x ELSE Val(x.c, x.k - 1)
FloatAddEps_Twice(x) == Val(x.c, x.k + 2)
FloatAddEps(x) == IF x.c = "large" THEN x ELSE Val(x.c, x.k + 1)

\* np.inf; FloatLt orders it above every number
Inf == Num(1, 0)

\* x + y of two errors (whole numbers, np.inf or not-a-number)
FloatSum(x, y) ==
    IF x.nan \/ y.nan THEN FreshNan
    ELSE IF x.d = 0 \/ y.d = 0 THEN Inf
    ELSE Num(x.n + y.n, 1)

\* the parameter names, as sorted() orders them
KeyOrder == <<"a", "l2">>
SortedKeys(S) == SelectSeq(KeyOrder, LAMBDA k : k \in S)

\* the error functions handed to the calibration; each is a function of the
\* parameter mapping
ErrorNames == {"nan", "inf", "flat", "rising", "falling", "valley", "nan_below"}

RECURSIVE SumOfParams(_, _, _)
SumOfParams(params, keys, i) ==
    IF i > Len(keys) THEN 0
    ELSE params[keys[i]].k + SumOfParams(params, keys, i + 1)

ErrorOf(name, params) ==
    LET s == SumOfParams(params, SortedKeys(DOMAIN params), 1)
    IN  CASE name = "nan" -> FreshNan
          [] name = "inf" -> Inf
          [] name = "flat" -> Num(0, 1)
          [] name = "rising" -> Num(s, 1)
          [] name = "falling" -> Num(0 - s, 1)
          [] name = "valley" -> Num(Abs(s), 1)
          [] OTHER -> IF s < 0 THEN FreshNan ELSE Num(s, 1)

\* error_f(params): the function itself, or the sum over a list of them
RECURSIVE SumOfErrors(_, _, _)
SumOfErrors(fs_, params, i) ==
    IF i > Len(fs_) THEN Num(0, 1)
    ELSE FloatSum(ErrorOf(fs_[i], params), SumOfErrors(fs_, params, i + 1))

ErrorF(error_function, params) ==
    IF error_function.callable THEN ErrorOf(error_function.f[1], params)
    ELSE SumOfErrors(error_function.f, params, 1)

Callable(name) == [callable |-> TRUE, f |-> <<name>>]
ListOf(names) == [callable |-> FALSE, f |-> names]

\* a value that may be None
None == [none |-> TRUE, x |-> <<>>]
Some(x) == [none |-> FALSE, x |-> x]

\* params_bounds = [(i - EPS, j + EPS) for i, j in params_bounds], after
\* param_keys, params_bounds = zip(*sorted(params_bounds.items()))
WidenedBounds(bounds, keys) ==
    [j \in 1..Len(keys) |-> <<FloatSubEps(bounds[keys[j]][1]),
                              FloatAddEps(bounds[keys[j]][2])>>]

\* params.update({k: v for k, v in zip(param_keys, params_values)})
UpdateParams(params, param_keys, params_values) ==
    [k \in DOMAIN params \cup Range(param_keys) |->
        IF \E j \in 1..Len(param_keys) : param_keys[j] = k
        THEN params_values[CHOOSE j \in 1..Len(param_keys) : param_keys[j] = k]
        ELSE params[k]]

\* error_func(params_values): the parameters are updated, the error is
\* computed, and a point whose error is below the lowest so far is kept
KeepsLowest(res, min_e) == FloatLt(res, min_e)

ErrorFunc(c, params_values) ==
    LET params == UpdateParams(c.params, c.param_keys, params_values)
        res == ErrorF(c.error_function, params)
        keep == KeepsLowest(res, c.min_e)
    IN  [c EXCEPT !.params = params,
                  !.min_e = IF keep THEN res ELSE @,
                  !.min_p = IF keep THEN Some(params_values) ELSE @,
                  !.evaluated = @ \cup {params_values}]

\* the points the optimisers may evaluate or declare: those within the
\* bounds they are given
Between(lo, hi) == {Val(lo.c, k) : k \in lo.k..hi.k}
InBounds(params_bounds) ==
    {x \in [1..Len(params_bounds) -> UNION {Between(b[1], b[2]) : b \in Range(params_bounds)}] :
        \A j \in 1..Len(params_bounds) : x[j] \in Between(params_bounds[j][1], params_bounds[j][2])}

\* brute(error_func, params_bounds, Ns=3.0, ...): three points a dimension,
\* the two ends and the middle, the first parameter varying slowest
GridSteps == 3
Axis(b) == <<b[1], Val(b[1].c, (b[1].k + b[2].k) \div 2), b[2]>>

RECURSIVE Pow(_, _)
Pow(b, e) == IF e = 0 THEN 1 ELSE b * Pow(b, e - 1)

GridSize(params_bounds) == Pow(GridSteps, Len(params_bounds))
GridPoint(params_bounds, i) ==
    [j \in 1..Len(params_bounds) |->
        Axis(params_bounds[j])[(((i - 1) \div Pow(GridSteps, Len(params_bounds) - j)) % GridSteps) + 1]]

\* the grid point brute hands to finish: the first of the lowest error, or
\* the first not-a-number one (np.argmin)
GridOptimum(c) ==
    LET n == GridSize(c.params_bounds)
        e(i) == ErrorF(c.error_function,
                       UpdateParams(c.params, c.param_keys, GridPoint(c.params_bounds, i)))
        first == IF \E i \in 1..n : e(i).nan
                 THEN CHOOSE i \in 1..n : e(i).nan /\ \A j \in 1..(i - 1) : ~e(j).nan
                 ELSE CHOOSE i \in 1..n : /\ \A j \in 1..n : ~FloatLt(e(j), e(i))
                                          /\ \A j \in 1..(i - 1) : FloatLt(e(i), e(j))
    IN  GridPoint(c.params_bounds, first)

\* the arguments of the calibration: bounds of one or two parameters, an
\* error function or a list of them, and an initial guess or None
PointBound(c) == <<Val(c, 0), Val(c, 0)>>
Interval == <<Val("unit", 0), Val("unit", 2)>>
BoundChoices == {PointBound("unit"), PointBound("large"), Interval}

\* at most one of the parameters has an interval
ParamsBounds ==
    {b \in UNION {[S -> BoundChoices] : S \in (SUBSET Range(KeyOrder)) \ {{}}} :
        \A k, l \in DOMAIN b : b[k] = Interval /\ b[l] = Interval => k = l}

ErrorFunctions ==
    {Callable(n) : n \in ErrorNames}
        \cup {ListOf(<<>>), ListOf(<<"rising", "nan_below">>), ListOf(<<"falling", "inf">>)}

\* an initial guess names every parameter of the bounds; its values need
\* not lie within them
InitialGuesses(bounds) ==
    {None} \cup {Some([k \in DOMAIN bounds |-> Val(bounds[k][1].c, g)]) : g \in {0, 5}}

\* calibrate_model_params(params_bounds, error_function, initial_guess) up
\* to the call of brute or of finish
Calibrate ==
    /\ cal.pc = "start"
    /\ LET param_keys == SortedKeys(DOMAIN cal.bounds)
           c == [cal EXCEPT !.param_keys = param_keys,
                            !.params_bounds = WidenedBounds(cal.bounds, param_keys)]
       IN  cal' = IF cal.initial_guess.none
                  THEN [c EXCEPT !.pc = "brute", !.i = 1]
                  ELSE [c EXCEPT !.pc = "minimize",
                                 !.x0 = [j \in 1..Len(param_keys) |->
                                            cal.initial_guess.x[param_keys[j]]]]
    /\ UNCHANGED <<cliVars, selVars, gmVars, fnVars, docVars, cpVars>>

\* brute evaluates the next point of its grid and, after the last one,
\* calls finish(error_func, xmin)
BruteEvaluates ==
    /\ cal.pc = "brute"
    /\ LET c == ErrorFunc(cal, GridPoint(cal.params_bounds, cal.i))
       IN  cal' = IF cal.i < GridSize(cal.params_bounds)
                  THEN [c EXCEPT !.i = @ + 1]
                  ELSE [c EXCEPT !.pc = "minimize", !.x0 = GridOptimum(cal)]
    /\ UNCHANGED <<cliVars, selVars, gmVars, fnVars, docVars, cpVars>>

\* minimize(fun, x0, bounds=params_bounds) evaluates one more point
MinimizeEvaluates ==
    /\ cal.pc = "minimize"
    /\ cal.evals < MaxEvals
    /\ \E x \in InBounds(cal.params_bounds) :
          cal' = [ErrorFunc(cal, x) EXCEPT !.evals = @ + 1]
    /\ UNCHANGED <<cliVars, selVars, gmVars, fnVars, docVars, cpVars>>

\* finish(fun, x0): res.x when the minimiser succeeded, else the point
\* kept by error_func, which is None when no error was below np.inf
Finish(c, success, x) == IF success THEN Some(x) ELSE c.min_p

\* the minimiser ends, having evaluated its start at least, and declares
\* the optimum x; brute returns what finish returned; update_params(x) and
\* return params, or the TypeError of zip(param_keys, None)
MinimizeEnds ==
    /\ cal.pc = "minimize"
    /\ cal.evals > 0
    /\ \E success \in BOOLEAN, x \in InBounds(cal.params_bounds) :
          \E r \in {Finish(cal, success, x)} :
              cal' = IF r.none
                     THEN [cal EXCEPT !.pc = "done", !.success = success,
                                      !.declared = x, !.exc = "TypeError"]
                     ELSE [cal EXCEPT !.pc = "done", !.success = success,
                                      !.declared = x, !.x = r,
                                      !.params = UpdateParams(cal.params, cal.param_keys, r.x)]
    /\ UNCHANGED <<cliVars, selVars, gmVars, fnVars, docVars, cpVars>>

InitCalib ==
    /\ \E bounds \in ParamsBounds, error_function \in ErrorFunctions :
          \E initial_guess \in InitialGuesses(bounds) :
              cal = [pc |-> "start", bounds |-> bounds,
                     error_function |-> error_function,
                     initial_guess |-> initial_guess,
                     param_keys |-> <<>>, params_bounds |-> <<>>,
                     params |-> [k \in {} |-> Val("unit", 0)],
                     min_e |-> Inf, min_p |-> None,
                     i |-> 0, x0 |-> <<>>, evals |-> 0, evaluated |-> {},
                     success |-> FALSE, declared |-> <<>>, x |-> None,
                     exc |-> "none"]
    /\ CliIdle
    /\ SelIdle
    /\ GmIdle
    /\ FnIdle
    /\ DocIdle
    /\ CpIdle

NextCalib ==
    \/ Calibrate
    \/ BruteEvaluates
    \/ MinimizeEvaluates
    \/ MinimizeEnds

SpecCalib == InitCalib /\ [][NextCalib]_vars

-----------------------------------------------------------------------------

(* The formulas of engine/co2_emission.py.                                 *)

\* the most samples of a time series, and the most phases of a cycle
MaxSamples == 2

\* Floats are exact fractions n/d in lowest terms with d > 0, the two
\* infinities (d = 0, n the sign) and not-a-number; rounding and the sign of
\* zero are not modelled.
Rat(n, d) == Frac(n, d)
NegInf == Num(0 - 1, 0)
Sign(x) == IF x.n > 0 THEN 1 ELSE IF x.n < 0 THEN 0 - 1 ELSE 0

FNeg(x) == [x EXCEPT !.n = 0 - @]

FMul(x, y) ==
    IF x.nan \/ y.nan THEN FreshNan
    ELSE IF x.d = 0 \/ y.d = 0
         THEN IF x.n = 0 \/ y.n = 0 THEN FreshNan ELSE Num(Sign(x) * Sign(y), 0)
    ELSE LET g1 == Gcd(Abs(x.n), y.d)
             g2 == Gcd(Abs(y.n), x.d)
         IN  Num((x.n \div g1) * (y.n \div g2), (x.d \div g2) * (y.d \div g1))

\* x / y of numpy: a division by zero gives an infinity or not-a-number
FDiv(x, y) ==
    IF x.nan \/ y.nan THEN FreshNan
    ELSE IF y.d = 0 THEN IF x.d = 0 THEN FreshNan ELSE Num(0, 1)
    ELSE IF y.n = 0 THEN IF x.n = 0 THEN FreshNan ELSE Num(Sign(x), 0)
    ELSE IF x.d = 0 THEN Num(Sign(x) * Sign(y), 0)
    ELSE FMul(x, IF y.n > 0 THEN Num(y.d, y.n) ELSE Num(0 - y.d, 0 - y.n))

FAdd(x, y) ==
    IF x.nan \/ y.nan THEN FreshNan
    ELSE IF x.d = 0 /\ y.d = 0 THEN IF x.n = y.n THEN x ELSE FreshNan
    ELSE IF x.d = 0 THEN x
    ELSE IF y.d = 0 THEN y
    ELSE LET g == Gcd(x.d, y.d)
         IN  Frac(x.n * (y.d \div g) + y.n * (x.d \div g), (x.d \div g) * y.d)

FSub(x, y) == FAdd(x, FNeg(y))

\* x < y and x <= y: false when one of them is not-a-number
FLt(x, y) ==
    /\ ~x.nan /\ ~y.nan
    /\ IF x.d = 0 /\ y.d = 0 THEN x.n < y.n
       ELSE IF x.d = 0 \/ y.d = 0 THEN x.n * y.d < y.n * x.d
       ELSE LET g == Gcd(x.d, y.d) IN x.n * (y.d \div g) < y.n * (x.d \div g)
FLe(x, y) == ~x.nan /\ ~y.nan /\ ~FLt(y, x)

\* np.nan_to_num: not-a-number becomes 0.0 and an infinity the largest
\* finite float of its sign
MaxFloat == 1000000
NanToNum(x) ==
    IF x.nan THEN Num(0, 1)
    ELSE IF x.d = 0 THEN Num(x.n * MaxFloat, 1)
    ELSE x

\* max(b, x) and min(b, x) of Python: the first argument unless the second
\* is greater (less)
PyMax(b, x) == IF FLt(b, x) THEN x ELSE b
PyMin(b, x) == IF FLt(x, b) THEN x ELSE b

\* ---- restrict_bounds(co2_params_bounds, co2_params_initial_guess)

Mul_L2AsL ==
    [t |-> <<Rat(1, 2), Rat(3, 2)>>, trg |-> <<Rat(9, 10), Rat(11, 10)>>,
     a |-> <<Rat(4, 5), Rat(6, 5)>>, b |-> <<Rat(4, 5), Rat(6, 5)>>,
     c |-> <<Rat(6, 5), Rat(4, 5)>>, a2 |-> <<Rat(6, 5), Rat(4, 5)>>,
     l |-> <<Rat(6, 5), Rat(4, 5)>>, l2 |-> <<Rat(6, 5), Rat(4, 5)>>]
Mul ==
    [t |-> <<Rat(1, 2), Rat(3, 2)>>, trg |-> <<Rat(9, 10), Rat(11, 10)>>,
     a |-> <<Rat(4, 5), Rat(6, 5)>>, b |-> <<Rat(4, 5), Rat(6, 5)>>,
     c |-> <<Rat(6, 5), Rat(4, 5)>>, a2 |-> <<Rat(6, 5), Rat(4, 5)>>,
     l |-> <<Rat(6, 5), Rat(4, 5)>>, l2 |-> <<Rat(6, 5), Rat(0, 1)>>]

\* _limits(k, v): fun = [max, min] zipped with the bounds and multipliers
Limits(co2_params_bounds, k, v) ==
    <<PyMax(co2_params_bounds[k][1], FMul(v, Mul[k][1])),
      PyMin(co2_params_bounds[k][2], FMul(v, Mul[k][2]))>>

\* the restricted bounds, or the KeyError of co2_params_bounds[k] or mul[k]
RestrictBounds(co2_params_bounds, co2_params_initial_guess) ==
    IF \E k \in DOMAIN co2_params_initial_guess :
          k \notin DOMAIN co2_params_bounds \/ k \notin DOMAIN Mul
    THEN [exc |-> "KeyError", out |-> <<>>]
    ELSE [exc |-> "none",
          out |-> [k \in DOMAIN co2_params_initial_guess |->
                      Limits(co2_params_bounds, k, co2_params_initial_guess[k])]]

\* the names of the CO2 parameters, the values of an estimate and the
\* original bounds of a parameter
Co2ParamNames == {"a2", "b2", "a", "b", "c", "l", "l2", "t", "trg"}
EstimateValues == {Rat(0 - 3, 1000), Rat(0, 1), Rat(1, 2)}
OriginalBounds == {<<Rat(0 - 1, 100), Rat(0, 1)>>, <<Rat(0 - 1, 1), Rat(1, 1)>>}

RestrictBoundsInputs ==
    {[f |-> "restrict_bounds", pc |-> "start",
      co2_params_bounds |-> bounds, co2_params_initial_guess |-> guess] :
        <<bounds, guess>> \in
            UNION {{<<b, g>> : b \in UNION {[S \ M -> OriginalBounds] : M \in {{}} \cup {{k} : k \in S}},
                               g \in [S -> EstimateValues]} :
                   S \in {T \in SUBSET Co2ParamNames : Cardinality(T) \in 1..2}}}

ApplyRestrictBounds ==
    /\ fn.pc = "start"
    /\ fn.f = "restrict_bounds"
    /\ \E r \in {RestrictBounds(fn.co2_params_bounds, fn.co2_params_initial_guess)} :
          fn' = [f |-> fn.f, pc |-> "done",
                 co2_params_bounds |-> fn.co2_params_bounds,
                 co2_params_initial_guess |-> fn.co2_params_initial_guess,
                 exc |-> r.exc, out |-> r.out]
    /\ UNCHANGED <<cliVars, selVars, gmVars, calVars, docVars, cpVars>>

\* ---- calculate_normalized_engine_coolant_temperatures

\* T[T > 1] = 1.0
Clamp_Off(T) == T
Clamp(T) == IF FLt(Num(1, 1), T) THEN Num(1, 1) ELSE T

\* one element of the vector: (theta + 273.0) / (temperature_target + 273.0)
NormalizedTemperature(theta, temperature_target) ==
    Clamp(FDiv(FAdd(theta, Num(273, 1)), FAdd(temperature_target, Num(273, 1))))

CalculateNormalizedEngineCoolantTemperatures(engine_coolant_temperatures, temperature_target) ==
    [i \in 1..Len(engine_coolant_temperatures) |->
        NormalizedTemperature(engine_coolant_temperatures[i], temperature_target)]

\* vectors of one to MaxSamples elements of a set
Vectors(S) == UNION {[1..n -> S] : n \in 1..MaxSamples}

\* temperatures in degrees Celsius, above the absolute zero
Temperatures == {Num(0 - 20, 1), Num(20, 1), Num(90, 1), Num(110, 1)}

NormalizedTemperaturesInputs ==
    {[f |-> "calculate_normalized_engine_coolant_temperatures", pc |-> "start",
      engine_coolant_temperatures |-> temps, temperature_target |-> target] :
        temps \in Vectors(Temperatures), target \in Temperatures}

ApplyNormalizedTemperatures ==
    /\ fn.pc = "start"
    /\ fn.f = "calculate_normalized_engine_coolant_temperatures"
    /\ fn' = [f |-> fn.f, pc |-> "done",
              engine_coolant_temperatures |-> fn.engine_coolant_temperatures,
              temperature_target |-> fn.temperature_target,
              exc |-> "none",
              out |-> CalculateNormalizedEngineCoolantTemperatures(
                          fn.engine_coolant_temperatures, fn.temperature_target)]
    /\ UNCHANGED <<cliVars, selVars, gmVars, calVars, docVars, cpVars>>

\* ---- calculate_brake_mean_effective_pressures

\* (1200000.0 / engine_capacity) * engine_powers_out / engine_speeds_out of
\* one element of the vectors, before np.nan_to_num
BrakePressure(speed, power, engine_capacity) ==
    FDiv(FMul(FDiv(Num(1200000, 1), engine_capacity), power), speed)

\* the vectors are np.array, or both are a float: the division of Python
\* floats by zero raises ZeroDivisionError, that of arrays does not
CalculateBrakeMeanEffectivePressures(engine_speeds_out, engine_powers_out, engine_capacity, scalars) ==
    IF scalars /\ engine_speeds_out[1].n = 0
    THEN [exc |-> "ZeroDivisionError", out |-> <<>>]
    ELSE [exc |-> "none",
          out |-> [i \in 1..Len(engine_speeds_out) |->
                      NanToNum(BrakePressure(engine_speeds_out[i], engine_powers_out[i],
                                             engine_capacity))]]

\* engine speeds [RPM], powers [kW] and capacities [cm3]
EngineSpeeds == {Num(0, 1), Num(1000, 1), Num(3000, 1)}
EnginePowers == {Num(0 - 5, 1), Num(0, 1), Num(20, 1)}
EngineCapacities == {Num(1200, 1), Num(2000, 1)}

BrakePressuresInputs ==
    {x \in [f : {"calculate_brake_mean_effective_pressures"}, pc : {"start"},
            engine_speeds_out : Vectors(EngineSpeeds),
            engine_powers_out : Vectors(EnginePowers),
            engine_capacity : EngineCapacities, scalars : BOOLEAN] :
        /\ Len(x.engine_speeds_out) = Len(x.engine_powers_out)
        /\ x.scalars => Len(x.engine_speeds_out) = 1}

ApplyBrakePressures ==
    /\ fn.pc = "start"
    /\ fn.f = "calculate_brake_mean_effective_pressures"
    /\ \E r \in {CalculateBrakeMeanEffectivePressures(
                    fn.engine_speeds_out, fn.engine_powers_out, fn.engine_capacity, fn.scalars)} :
          fn' = [f |-> fn.f, pc |-> "done",
                 engine_speeds_out |-> fn.engine_speeds_out,
                 engine_powers_out |-> fn.engine_powers_out,
                 engine_capacity |-> fn.engine_capacity, scalars |-> fn.scalars,
                 exc |-> r.exc, out |-> r.out]
    /\ UNCHANGED <<cliVars, selVars, gmVars, calVars, docVars, cpVars>>

\* ---- calculate_co2_emission(phases_co2_emissions, phases_distances)

\* an argument is a np.array, a plain tuple, or one Python float or int
Arg(kind, v) == [kind |-> kind, v |-> v]
IsSequence(x) == x.kind \in {"array", "tuple"}

\* sum(xs) of the builtin: 0 + xs[0] + xs[1] + ...
RECURSIVE PySum(_, _)
PySum(xs, i) == IF i > Len(xs) THEN Num(0, 1) ELSE FAdd(xs[i], PySum(xs, i + 1))

\* phases_co2_emissions * phases_distances: element by element when one of
\* them is a np.array, else the TypeError of a tuple times a tuple or a float
\* (a tuple times an int is the tuple repeated)
Times(x, y) ==
    IF x.kind = "array" \/ y.kind = "array"
    THEN [exc |-> "none",
          v |-> [i \in 1..Len(x.v) |-> FMul(x.v[i], IF IsSequence(y) THEN y.v[i] ELSE y.v[1])]]
    ELSE IF y.kind = "int"
    THEN [exc |-> "none",
          v |-> [i \in 1..(Len(x.v) * y.v[1].n) |-> x.v[((i - 1) % Len(x.v)) + 1]]]
    ELSE [exc |-> "TypeError", v |-> <<>>]

\* d: the scalar times the number of phases if isinstance(phases_distances,
\* float), else sum(phases_distances), a TypeError for an int
Denominator_NoCount(co2, dist) ==
    IF dist.kind = "int" THEN [exc |-> "TypeError", d |-> Num(0, 1)]
    ELSE [exc |-> "none", d |-> PySum(dist.v, 1)]
Denominator(co2, dist) ==
    IF dist.kind = "float"
    THEN [exc |-> "none", d |-> FMul(dist.v[1], Num(Len(co2.v), 1))]
    ELSE IF dist.kind = "int" THEN [exc |-> "TypeError", d |-> Num(0, 1)]
    ELSE [exc |-> "none", d |-> PySum(dist.v, 1)]

CalculateCo2Emission(phases_co2_emissions, phases_distances) ==
    LET n == Times(phases_co2_emissions, phases_distances)
        d == Denominator(phases_co2_emissions, phases_distances)
    IN  IF n.exc # "none" THEN [exc |-> n.exc, out |-> Num(0, 1)]
        ELSE IF d.exc # "none" THEN [exc |-> d.exc, out |-> Num(0, 1)]
        ELSE [exc |-> "none", out |-> FDiv(PySum(n.v, 1), d.d)]

\* CO2 emissions of the phases [CO2g/km] and their distances [km]
PhaseEmissions == {Num(5, 1), Num(10, 1)}
PhaseDistances == {Num(2, 1), Num(3, 1)}

\* the distances are given for every phase, or as one scalar
Co2EmissionInputs ==
    {x \in [f : {"calculate_co2_emission"}, pc : {"start"},
            phases_co2_emissions : {Arg(k, v) : k \in {"array", "tuple"},
                                                v \in Vectors(PhaseEmissions)},
            phases_distances : {Arg(k, v) : k \in {"array", "tuple", "float", "int"},
                                            v \in Vectors(PhaseDistances)}] :
        IF IsSequence(x.phases_distances)
        THEN Len(x.phases_distances.v) = Len(x.phases_co2_emissions.v)
        ELSE Len(x.phases_distances.v) = 1}

ApplyCo2Emission ==
    /\ fn.pc = "start"
    /\ fn.f = "calculate_co2_emission"
    /\ \E r \in {CalculateCo2Emission(fn.phases_co2_emissions, fn.phases_distances)} :
          fn' = [f |-> fn.f, pc |-> "done",
                 phases_co2_emissions |-> fn.phases_co2_emissions,
                 phases_distances |-> fn.phases_distances,
                 exc |-> r.exc, out |-> r.out]
    /\ UNCHANGED <<cliVars, selVars, gmVars, calVars, docVars, cpVars>>

\* ---- calculate_co2_emissions

\* np.sqrt of a number that is not negative, rounded down to a multiple of
\* 1 / SqrtScale
SqrtScale == 10
ISqrt(m) == CHOOSE r \in 0..(m + 1) : r * r <= m /\ m < (r + 1) * (r + 1)
FSqrt(x) ==
    IF x.nan \/ x.d = 0 THEN x
    ELSE Rat(ISqrt((x.n * SqrtScale * SqrtScale) \div x.d), SqrtScale)

FAbs(x) == IF x.nan THEN x ELSE [x EXCEPT !.n = Abs(@)]

\* np.power(x, -t) for a whole number t >= 0
RECURSIVE FPow(_, _)
FPow(x, t) == IF t = 0 THEN Num(1, 1) ELSE FMul(x, FPow(x, t - 1))
PowerMinus(x, t) == IF t.n = 0 THEN Num(1, 1) ELSE FDiv(Num(1, 1), FPow(x, t.n))

\* _calculate_fuel_mean_effective_pressure(params, n_speeds, n_powers,
\* n_temperatures) of one element: the pair it returns
FMEP(p, n_speeds, n_powers, n_temperatures) ==
    LET B == FAdd(p["a"], FMul(FAdd(p["b"], FMul(p["c"], n_speeds)), n_speeds))
        C == FSub(FMul(PowerMinus(n_temperatures, p["t"]),
                       FAdd(p["l"], FMul(p["l2"], FMul(n_speeds, n_speeds)))),
                  n_powers)
        A_2 == FMul(Num(2, 1), FAdd(p["a2"], FMul(p["b2"], n_speeds)))
        v == FSqrt(FAbs(FSub(FMul(B, B), FMul(Num(2, 1), FMul(A_2, C)))))
    IN  IF p["a2"].n = 0 /\ p["b2"].n = 0
        THEN <<FDiv(FNeg(C), B), B>>
        ELSE <<FDiv(FAdd(FNeg(B), v), A_2), v>>

\* p = {'a2': 0.0, ...}; p.update(default_params.copy()); p.update(params)
ZeroParams == [k \in Co2ParamNames |-> Num(0, 1)]
EffectiveParams_DefaultsLast(params, default_params) ==
    Update(Update(ZeroParams, params), default_params)
EffectiveParams(params, default_params) == Update(Update(ZeroParams, default_params), params)

\* params and default_params after the call: p is a dictionary of its own,
\* updated with a copy of default_params and with params, which are only read
ParamsAfter(params, default_params) == params
DefaultParamsAfter(params, default_params) == default_params

\* calculate_p0(params, engine_capacity, engine_stroke,
\* idle_engine_speed_median, engine_fuel_lower_heating_value)
CalculateP0(params, engine_capacity, engine_stroke, idle_engine_speed_median, lhv) ==
    LET p == Update(ZeroParams, params)
        engine_cm_idle == FDiv(FMul(idle_engine_speed_median, engine_stroke), Num(30000, 1))
        idle == FMEP(p, engine_cm_idle, Num(0, 1), Num(1, 1))
        engine_wfa_idle == FDiv(FDiv(Num(3600000, 1), lhv), idle[2])
        engine_wfb_idle ==
            FMul(idle[1], FMul(FDiv(FMul(Num(3, 1), engine_capacity), lhv),
                               idle_engine_speed_median))
    IN  FDiv(FNeg(engine_wfb_idle), engine_wfa_idle)

\* MIN_ENGINE_SPEED [RPM]
MIN_ENGINE_SPEED == 10

\* fc[b] = engine_idle_fuel_consumption * idle_fc_temp_correction
IdleOverride(fc, b, idle_fc) == IF b THEN idle_fc ELSE fc

\* fc[(e_powers <= ec_p0) | e_off | (fc < 0)] = 0
CutOff(fc, e_power, ec_p0, e_off) ==
    IF FLe(e_power, ec_p0) \/ e_off \/ FLt(fc, Num(0, 1)) THEN Num(0, 1) ELSE fc

\* the fuel consumption of one sample: the idle override, then the cut-off
FuelConsumption_IdleLast(fc, b, idle_fc, e_power, ec_p0, e_off) ==
    IdleOverride(CutOff(fc, e_power, ec_p0, e_off), b, idle_fc)
FuelConsumption(fc, b, idle_fc, e_power, ec_p0, e_off) ==
    CutOff(IdleOverride(fc, b, idle_fc), e_power, ec_p0, e_off)

\* v[sub_values]: the elements selected by a boolean vector
RECURSIVE Select(_, _, _)
Select(v, sub_values, i) ==
    IF i > Len(v) THEN <<>>
    ELSE (IF sub_values[i] THEN <<v[i]>> ELSE <<>>) \o Select(v, sub_values, i + 1)

\* the locals of calculate_co2_emissions for one selected element of the
\* vectors, and the element of the vector it returns
Co2OfSample(x, p, e_speed, e_power, n_speed, n_power, e_temp, on) ==
    LET lhv == x.engine_fuel_lower_heating_value
        e_off == ~on
        n_temp == NormalizedTemperature(e_temp, p["trg"])
        fmep == FMEP(p, n_speed, n_power, n_temp)[1]
        fc == FMul(fmep, FMul(e_speed, FDiv(x.engine_capacity, FMul(lhv, Num(1200, 1)))))
        ec_p0 == CalculateP0(p, x.engine_capacity, x.engine_stroke, e_speed, lhv)
        b == FLt(e_speed, FAdd(x.idle_engine_speed[1], Num(MIN_ENGINE_SPEED, 1)))
        idle_fc == FMul(x.engine_idle_fuel_consumption, PowerMinus(n_temp, p["t"]))
        cut == FuelConsumption(fc, b, idle_fc, e_power, ec_p0, e_off)
    IN  [e_power |-> e_power, e_off |-> e_off, ec_p0 |-> ec_p0, b |-> b,
         fc |-> IdleOverride(fc, b, idle_fc),
         co2 |-> NanToNum(FMul(cut, x.fuel_carbon_content))]

CalculateCo2Emissions(x) ==
    LET p == EffectiveParams(x.params, x.default_params)
        sub_values == IF x.sub_values.none
                      THEN [i \in 1..Len(x.mean_piston_speeds) |-> TRUE]
                      ELSE x.sub_values.v
        n_speeds == Select(x.mean_piston_speeds, sub_values, 1)
        n_powers == Select(x.brake_mean_effective_pressures, sub_values, 1)
        e_speeds == Select(x.engine_speeds_out, sub_values, 1)
        e_powers == Select(x.engine_powers_out, sub_values, 1)
        e_temp == Select(x.engine_coolant_temperatures, sub_values, 1)
        on == Select(x.on_engine, sub_values, 1)
    IN  [i \in 1..Len(e_speeds) |->
            Co2OfSample(x, p, e_speeds[i], e_powers[i], n_speeds[i], n_powers[i],
                        e_temp[i], on[i])]

\* the operating points of a sample: no power at standstill, a running engine
\* that delivers no power, and a cold engine only near the idle speed
OperatingPoints ==
    {s \in [speed : {Num(0, 1), Num(500, 1), Num(2000, 1)},
            power : EnginePowers,
            temp : {Num(15, 1), Num(105, 1)},
            on : BOOLEAN] :
        /\ s.speed.n = 0 => s.power.n = 0
        /\ (s.power.n = 0 /\ s.speed.n # 0) => (s.speed.n = 2000 /\ s.on)
        /\ s.temp.n = 15 => s.speed.n = 500}

\* the parameters: none (all zero), a linear and a quadratic model
Co2Params ==
    {[k \in {} |-> Num(0, 1)],
     [a |-> Rat(1, 2), l |-> Num(0 - 2, 1), t |-> Num(1, 1), trg |-> Num(87, 1)],
     [a |-> Rat(1, 2), a2 |-> Rat(0 - 1, 4), l |-> Num(0 - 2, 1),
      l2 |-> Rat(0 - 1, 2), trg |-> Num(87, 1)]}
DefaultParams == {[k \in {} |-> Num(0, 1)], [b |-> Rat(1, 2), t |-> Num(2, 1)]}

\* sub_values: None, or a boolean vector that leaves the first sample out
NoMask == [none |-> TRUE, v |-> <<>>]
SubValues(n) == {NoMask, [none |-> FALSE, v |-> [i \in 1..n |-> i > 1]]}

EngineStroke == Num(30, 1)
EngineCapacity == Num(1200, 1)
LowerHeatingValue == Num(1000, 1)

\* the arguments of one call, for the samples s
Co2EmissionsCall(s, params, default_params, sub_values) ==
    [f |-> "calculate_co2_emissions", pc |-> "start",
     engine_speeds_out |-> [i \in DOMAIN s |-> s[i].speed],
     engine_powers_out |-> [i \in DOMAIN s |-> s[i].power],
     mean_piston_speeds |->
         [i \in DOMAIN s |-> FDiv(FMul(s[i].speed, EngineStroke), Num(30000, 1))],
     brake_mean_effective_pressures |->
         CalculateBrakeMeanEffectivePressures(
             [i \in DOMAIN s |-> s[i].speed], [i \in DOMAIN s |-> s[i].power],
             EngineCapacity, FALSE).out,
     engine_coolant_temperatures |-> [i \in DOMAIN s |-> s[i].temp],
     on_engine |-> [i \in DOMAIN s |-> s[i].on],
     engine_fuel_lower_heating_value |-> LowerHeatingValue,
     idle_engine_speed |-> <<Num(500, 1), Num(50, 1)>>,
     engine_stroke |-> EngineStroke,
     engine_capacity |-> EngineCapacity,
     engine_idle_fuel_consumption |-> Rat(1, 5),
     fuel_carbon_content |-> Num(3, 1),
     params |-> params, default_params |-> default_params, sub_values |-> sub_values]

IsCo2EmissionsInput(x) ==
    \E s \in Vectors(OperatingPoints), params \in Co2Params, default_params \in DefaultParams :
        \E sub_values \in SubValues(Len(s)) :
            x = Co2EmissionsCall(s, params, default_params, sub_values)

ApplyCo2Emissions ==
    /\ fn.pc = "start"
    /\ fn.f = "calculate_co2_emissions"
    /\ \E r \in {CalculateCo2Emissions(fn)} :
          fn' = [fn EXCEPT !.pc = "done"]
                    @@ [exc |-> "none", locals |-> r,
                        p |-> EffectiveParams(fn.params, fn.default_params),
                        params_after |-> ParamsAfter(fn.params, fn.default_params),
                        default_params_after |->
                            DefaultParamsAfter(fn.params, fn.default_params),
                        out |-> [i \in 1..Len(r) |-> r[i].co2]]
    /\ UNCHANGED <<cliVars, selVars, gmVars, calVars, docVars, cpVars>>

\* ---- calculate_cumulative_co2(times, phases_integration_times,
\* co2_emissions, phases_distances=1.0)

\* pairwise(phases_integration_times): (s0, s1), (s1, s2), ...
Pairwise(s) == [k \in 1..(IF Len(s) = 0 THEN 0 ELSE Len(s) - 1) |-> <<s[k], s[k + 1]>>]

\* b = (t0 <= times) & (times < t1), for one element of times
InPhase_Closed(t0, t1, t) == FLe(t0, t) /\ FLe(t, t1)
InPhase(t0, t1, t) == FLe(t0, t) /\ FLt(t, t1)

\* trapz(y, x): the sum of (x[i + 1] - x[i]) * (y[i + 1] + y[i]) / 2
RECURSIVE Trapz(_, _, _)
Trapz(y, x, i) ==
    IF i >= Len(x) THEN Num(0, 1)
    ELSE FAdd(FDiv(FMul(FSub(x[i + 1], x[i]), FAdd(y[i + 1], y[i])), Num(2, 1)),
              Trapz(y, x, i + 1))

\* np.array(co2) / phases_distances: by the scalar, or element by element
DivideByDistances(co2, phases_distances) ==
    [k \in 1..Len(co2) |->
        FDiv(co2[k], IF IsSequence(phases_distances) THEN phases_distances.v[k]
                     ELSE phases_distances.v[1])]

\* the vector b of every phase, and the array returned
CalculateCumulativeCo2(times, phases_integration_times, co2_emissions, phases_distances) ==
    LET phases == Pairwise(phases_integration_times)
        b == [k \in 1..Len(phases) |->
                 [i \in 1..Len(times) |-> InPhase(phases[k][1], phases[k][2], times[i])]]
        co2 == [k \in 1..Len(phases) |->
                   Trapz(Select(co2_emissions, b[k], 1), Select(times, b[k], 1), 1)]
    IN  [b |-> b, out |-> DivideByDistances(co2, phases_distances)]

\* the time vectors [s]: increasing, of one to MaxSamples elements
SampleTimes == {0 - 1, 0, 1, 2, 3, 4}
TimeVectors ==
    {[i \in 1..Len(t) |-> Num(t[i], 1)] :
        t \in {u \in UNION {[1..n -> SampleTimes] : n \in 1..MaxSamples} :
                  \A i \in 1..(Len(u) - 1) : u[i] < u[i + 1]}}

\* the boundaries of the phases [s], in any order
PhaseBoundaries == {Num(0, 1), Num(2, 1), Num(4, 1)}
IntegrationTimes == UNION {[1..n -> PhaseBoundaries] : n \in 1..(MaxSamples + 1)}

\* the instantaneous emissions [CO2g/s]
InstantEmissions == {Num(1, 1), Num(3, 1)}

\* the default 1.0, a distance for all phases, or one distance for each
DistanceChoices(n) ==
    {Arg("float", <<Num(1, 1)>>), Arg("float", <<Num(2, 1)>>),
     Arg("array", [k \in 1..n |-> Num(k + 1, 1)])}

IsCumulativeCo2Input(x) ==
    \E times \in TimeVectors, phases_integration_times \in IntegrationTimes :
        \E co2_emissions \in [1..Len(times) -> InstantEmissions],
           phases_distances \in DistanceChoices(Len(phases_integration_times) - 1) :
            x = [f |-> "calculate_cumulative_co2", pc |-> "start", times |-> times,
                 phases_integration_times |-> phases_integration_times,
                 co2_emissions |-> co2_emissions, phases_distances |-> phases_distances]

ApplyCumulativeCo2 ==
    /\ fn.pc = "start"
    /\ fn.f = "calculate_cumulative_co2"
    /\ \E r \in {CalculateCumulativeCo2(fn.times, fn.phases_integration_times,
                                        fn.co2_emissions, fn.phases_distances)} :
          fn' = [fn EXCEPT !.pc = "done"] @@ [exc |-> "none", b |-> r.b, out |-> r.out]
    /\ UNCHANGED <<cliVars, selVars, gmVars, calVars, docVars, cpVars>>

FormulaInputs ==
    RestrictBoundsInputs
        \cup NormalizedTemperaturesInputs
        \cup BrakePressuresInputs
        \cup Co2EmissionInputs

InitFormulas ==
    /\ \/ fn \in FormulaInputs
       \/ IsCo2EmissionsInput(fn)
       \/ IsCumulativeCo2Input(fn)
    /\ CliIdle
    /\ SelIdle
    /\ GmIdle
    /\ CalIdle
    /\ DocIdle
    /\ CpIdle

NextFormulas ==
    \/ ApplyRestrictBounds
    \/ ApplyNormalizedTemperatures
    \/ ApplyBrakePressures
    \/ ApplyCo2Emission
    \/ ApplyCo2Emissions
    \/ ApplyCumulativeCo2

SpecFormulas == InitFormulas /\ [][NextFormulas]_vars

-----------------------------------------------------------------------------
(* calibrate_co2_params (engine/co2_emission.py).                          *)

\* hot_p and cold_p
HotP == {"a2", "a", "b", "c", "l", "l2"}
ColdP == {"t", "trg"}

\* the coolant temperatures are kept as one vector per cycle: one vector when
\* the error functions are functions, np.array(engine_coolant_temperatures)
\* when they are tuples of functions
\* cold = temps < co2_params_initial_guess['trg']
Cold(temps, guess) ==
    [c \in 1..Len(temps) |-> [i \in 1..Len(temps[c]) |-> FLt(temps[c][i], guess["trg"])]]

\* hot = np.logical_not(cold)
LogicalNot(b) == [c \in 1..Len(b) |-> [i \in 1..Len(b[c]) |-> ~b[c][i]]]

\* b.any()
NpAny(b) == \E i \in 1..Len(b) : b[i]

\* cold[0].any(), in the place of cold.any()
AnyCold_FirstCycle(cold) == NpAny(cold[1])

\* cold.any()
AnyCold(cold) == \E c \in 1..Len(cold) : NpAny(cold[c])

\* limits and initial of calibrate(id_p, **kwargs)
OnlyKeys(dict, id_p) == [k \in DOMAIN dict \cap id_p |-> dict[k]]

\* the default_params the hot fit is given, were they the initial guesses of
\* t and trg
HotDefaults_Guess(guess) == OnlyKeys(guess, ColdP)

\* default_params={} of the hot fit
HotDefaults(guess) == [k \in {} |-> Num(0, 1)]

\* err_f(params, default_params, sub_values): the calls it makes of the
\* error functions on emissions, each with the parameter set that
\* calculate_co2_emissions uses for it. A function is called once; of a
\* tuple of functions those whose cycle has a selected sample are called.
ErrF(kind, params, default_params, sub_values) ==
    {[cycle |-> c, sub_values |-> sub_values[c],
      p |-> EffectiveParams(params, default_params)] :
        c \in IF kind = "function" THEN {1}
              ELSE {k \in 1..Len(sub_values) : NpAny(sub_values[k])}}

\* what calibrate_model_params(limits, f, initial) can return: for every key
\* of the limits a value within them, here all at the lower or all at the
\* upper limit
Fitted(limits, low) == [k \in DOMAIN limits |-> IF low THEN limits[k][1] ELSE limits[k][2]]

\* how a call of calibrate_model_params can end: with the parameters, or
\* with the TypeError of a failed minimiser that kept no point; a function
\* on emissions that is given no sample may raise in mean_squared_error
FitOutcomes(kind, sub_values) ==
    {"none", "TypeError"}
        \cup (IF kind = "function" /\ ~NpAny(sub_values[1]) THEN {"ValueError"} ELSE {})

\* one evaluation f(params) of a fit, as calibrate_model_params makes it
Evaluation(fit, kind, params, default_params, sub_values) ==
    [fit |-> fit, params |-> params, default_params |-> default_params,
     calls |-> ErrF(kind, params, default_params, sub_values)]

CpRaised(exc) == [cp EXCEPT !.pc = "raised", !.exc = exc]

\* temps, cold, hot, bounds, guess
Partition ==
    /\ cp.pc = "start"
    /\ \E cold \in {Cold(cp.temps, cp.guess)} :
          cp' = [cp EXCEPT !.pc = "hot", !.cold = cold, !.hot = LogicalNot(cold)]
    /\ UNCHANGED <<cliVars, selVars, gmVars, calVars, fnVars, docVars>>

\* p = calibrate(hot_p, default_params={}, sub_values=hot)
HotFit ==
    /\ cp.pc = "hot"
    /\ \E low \in BOOLEAN, exc \in FitOutcomes(cp.kind, cp.hot) :
       \E x \in {Fitted(OnlyKeys(cp.bounds, HotP), low)} :
          cp' = IF exc # "none" THEN CpRaised(exc)
                ELSE [cp EXCEPT !.pc = "branch", !.p = x,
                         !.evals = Append(@, Evaluation("hot", cp.kind, x,
                                                        HotDefaults(cp.guess), cp.hot))]
    /\ UNCHANGED <<cliVars, selVars, gmVars, calVars, fnVars, docVars>>

\* if cold.any(): p.update(calibrate(cold_p, default_params=p, sub_values=cold))
ColdFit ==
    /\ cp.pc = "branch"
    /\ AnyCold(cp.cold)
    /\ \E low \in BOOLEAN, exc \in FitOutcomes(cp.kind, cp.cold) :
       \E x \in {Fitted(OnlyKeys(cp.bounds, ColdP), low)} :
          cp' = IF exc # "none" THEN CpRaised(exc)
                ELSE [cp EXCEPT !.pc = "restrict", !.p = Update(cp.p, x),
                         !.evals = Append(@, Evaluation("cold", cp.kind, x, cp.p, cp.cold))]
    /\ UNCHANGED <<cliVars, selVars, gmVars, calVars, fnVars, docVars>>

\* else: p['trg'] = co2_params_initial_guess['trg']; p['t'] = ...['t']
KeepGuess ==
    /\ cp.pc = "branch"
    /\ ~AnyCold(cp.cold)
    /\ cp' = [cp EXCEPT !.pc = "restrict", !.p = Update(cp.p, OnlyKeys(cp.guess, ColdP))]
    /\ UNCHANGED <<cliVars, selVars, gmVars, calVars, fnVars, docVars>>

\* bounds = restrict_bounds(bounds, p)
Restrict ==
    /\ cp.pc = "restrict"
    /\ \E r \in {RestrictBounds(cp.bounds, cp.p)} :
          cp' = IF r.exc # "none" THEN CpRaised(r.exc)
                ELSE [cp EXCEPT !.pc = "final", !.restricted = r.out]
    /\ UNCHANGED <<cliVars, selVars, gmVars, calVars, fnVars, docVars>>

\* return calibrate_model_params(bounds, co2_error_function_on_phases, p)
FinalFit ==
    /\ cp.pc = "final"
    /\ \E low \in BOOLEAN, exc \in {"none", "TypeError"} :
          cp' = IF exc # "none" THEN CpRaised(exc)
                ELSE [cp EXCEPT !.pc = "done", !.initial = cp.p,
                         !.out = Fitted(cp.restricted, low)]
    /\ UNCHANGED <<cliVars, selVars, gmVars, calVars, fnVars, docVars>>

\* the coolant temperatures [°C] and the initial guesses of trg: below, between
\* and above them
CoolantTemperatures == {Num(20, 1), Num(90, 1)}
TrgGuesses == {Num(10, 1), Num(50, 1), Num(100, 1)}

\* the temperatures of a call: one cycle for a function, one to MaxCycles
\* cycles of the same length for a tuple of functions
CycleTemperatures(kind) ==
    UNION {[1..n -> [1..m -> CoolantTemperatures]] :
              n \in (IF kind = "function" THEN {1} ELSE 1..MaxCycles), m \in 1..MaxSamples}

\* co2_params_initial_guess and co2_params_bounds
GuessWith(trg) ==
    [k \in HotP \cup ColdP |->
        IF k = "trg" THEN trg ELSE IF k = "t" THEN Num(2, 1) ELSE Rat(1, 2)]
Co2ParamsBounds ==
    [k \in HotP \cup ColdP |->
        IF k = "trg" THEN <<Num(0, 1), Num(120, 1)>>
        ELSE IF k = "t" THEN <<Num(1, 1), Num(4, 1)>>
        ELSE <<Rat(1, 4), Num(1, 1)>>]

NoParams == [k \in {} |-> Num(0, 1)]

InitCo2Params ==
    /\ \E kind \in {"function", "tuple"}, trg \in TrgGuesses :
       \E temps \in CycleTemperatures(kind) :
          cp = [pc |-> "start", exc |-> "none", kind |-> kind, temps |-> temps,
                guess |-> GuessWith(trg), bounds |-> Co2ParamsBounds,
                cold |-> <<>>, hot |-> <<>>, p |-> NoParams, evals |-> <<>>,
                restricted |-> NoParams, initial |-> NoParams, out |-> NoParams]
    /\ CliIdle
    /\ SelIdle
    /\ GmIdle
    /\ CalIdle
    /\ FnIdle
    /\ DocIdle

NextCo2Params ==
    \/ Partition
    \/ HotFit
    \/ ColdFit
    \/ KeepGuess
    \/ Restrict
    \/ FinalFit

SpecCo2Params == InitCo2Params /\ [][NextCo2Params]_vars

-----------------------------------------------------------------------------
(* The documentation tests (tests/test_docs.py).                           *)

\* header_len = 20
HeaderLen == 20

\* the readmes of the model: a text of n lines of which the k-th is the first
\* that holds the version string (k = 0: none does), and maybe the last one
\* holds it again. A line is modelled by whether "ver in l" holds.
Readme(n, k, again) == [i \in 1..n |-> k > 0 /\ (i = k \/ (again /\ i = n))]

\* test_README_version_opening starts: ver, header_len, open(readme_path)
OpenReadme(readme) == [pc |-> "loop", readme |-> readme, i |-> 0, outcome |-> "running"]

\* for i, l in enumerate(fd): one line is read; i counts from 0
\*     if ver in l: break
\*     elif i >= header_len: raise AssertionError(...)
ReadLine ==
    /\ doc.pc = "loop"
    /\ doc.i < Len(doc.readme)
    /\ doc' = (IF doc.readme[doc.i + 1]
               THEN [doc EXCEPT !.pc = "done", !.outcome = "passed"]
               ELSE IF doc.i >= HeaderLen
               THEN [doc EXCEPT !.pc = "done", !.outcome = "AssertionError"]
               ELSE [doc EXCEPT !.i = doc.i + 1])
    /\ UNCHANGED <<cliVars, selVars, gmVars, calVars, fnVars, cpVars>>

\* the file has no more lines: the loop and the test method end
EndOfReadme ==
    /\ doc.pc = "loop"
    /\ doc.i >= Len(doc.readme)
    /\ doc' = [doc EXCEPT !.pc = "done", !.outcome = "passed"]
    /\ UNCHANGED <<cliVars, selVars, gmVars, calVars, fnVars, cpVars>>

InitDocs ==
    /\ \E n \in 0..MaxLines, k \in 0..MaxLines, again \in BOOLEAN :
          /\ k <= n
          /\ doc = OpenReadme(Readme(n, k, again))
    /\ CliIdle
    /\ SelIdle
    /\ GmIdle
    /\ CalIdle
    /\ FnIdle
    /\ CpIdle

NextDocs ==
    \/ ReadLine
    \/ EndOfReadme

SpecDocs == InitDocs /\ [][NextDocs]_vars

-----------------------------------------------------------------------------

(* The claims about the command line (checked under SpecCli).              *)

\* the destination of the first <excel-file-path> of a template command
FirstTemplatePath == TemplatePath(cmd.paths[1])

\* the file at p was written by an earlier template command
TemplateMade(f, p) == Lookup(f, p) = File(TemplateData)

\* C1: when the first destination of a template command is a file that an
\* earlier template command created, then without --force the command ends
\* with the AlreadyExists message and nothing is written or changed, and
\* with --force the destination is opened for writing and holds the bundled
\* template (the command returning normally when it is the only path).
C1_TemplateTwice ==
    (cmd.name = "template" /\ TemplateMade(pre, FirstTemplatePath)) =>
        IF cmd.force
        THEN /\ Len(written) >= 1
             /\ written[1] = FirstTemplatePath
             /\ Lookup(fs, FirstTemplatePath) = File(TemplateData)
             /\ Len(cmd.paths) = 1 => result.how = "returned"
        ELSE /\ result.how = "SystemExit"
             /\ result.exc = CmdException("AlreadyExists")
             /\ written = <<>>
             /\ fs = pre

\* C1 witness: 'template t' refused after an earlier 'template' had created
\* /w/t.xlsx, the path t normalizes to
C1_Witness ==
    /\ cmd.name = "template"
    /\ cmd.paths = <<(<<"t">>)>>
    /\ ~cmd.force
    /\ TemplateMade(pre, P_t)
    /\ result.exc = CmdException("AlreadyExists")
    /\ fs = pre

\* C2 (as claimed): a template command whose first destination is an
\* existing directory ends with the InvalidTarget message and writes
\* nothing, with or without --force.
C2_DirectoryIsInvalidTarget ==
    (cmd.name = "template" /\ IsDir(pre, FirstTemplatePath)) =>
        /\ result.how = "SystemExit"
        /\ result.exc = CmdException("InvalidTarget")
        /\ written = <<>>
        /\ fs = pre

\* the destination folder of an example command
ExampleDst == AbsPath(cmd.folder)

\* C3 (as claimed): after an example command on an existing directory,
\* every demo file whose destination was a file is left as it was without
\* --force and holds the demo content, freshly written, with --force, and
\* every demo file whose destination did not exist has been created.
C3_ExampleSkipsOrCopies ==
    (cmd.name = "example" /\ IsDir(pre, ExampleDst)) =>
        \A n \in DemoListing :
            LET q == PathJoin(ExampleDst, n)
                wrote == \E k \in 1..Len(written) : written[k] = q
            IN  /\ (Lookup(pre, q).kind = "file" /\ ~cmd.force) =>
                      (Lookup(fs, q) = Lookup(pre, q) /\ ~wrote)
                /\ (Lookup(pre, q).kind = "file" /\ cmd.force) =>
                      (Lookup(fs, q) = File(DemoData(n)) /\ wrote)
                /\ ~Exists(pre, q) =>
                      (Lookup(fs, q) = File(DemoData(n)) /\ wrote)

\* C4: an example command whose destination does not exist ends with the
\* NotFound message, one whose destination exists and is no directory ends
\* with the InvalidTarget message, and in both cases nothing is written.
C4_ExampleValidatesFirst ==
    (cmd.name = "example" /\ ~IsDir(pre, ExampleDst)) =>
        /\ result.how = "SystemExit"
        /\ result.exc = CmdException(IF Exists(pre, ExampleDst)
                                     THEN "InvalidTarget" ELSE "NotFound")
        /\ written = <<>>
        /\ fs = pre

\* C4 witness: 'example in' refused because /w/in is a file
C4_Witness ==
    /\ cmd.name = "example"
    /\ cmd.folder = <<"in">>
    /\ Lookup(pre, P_in) = OldFile
    /\ result.exc = CmdException("InvalidTarget")
    /\ fs = pre

\* an absolute path that is an existing entry of the file system
ResolvedFolder(p) == IsAbs(p) /\ Exists(fs, p)

\* C5: in a simulate command the INPUT folder is asked for before the
\* OUTPUT folder and never after it; a directory picker is open only for a
\* folder that does not exist as a directory, and the OUTPUT one only once
\* the input folder is resolved; the pipeline is not called while a picker
\* is open nor when the user cancelled (UserAbort); it is called at most
\* once, and when the command returns it was called exactly once, with two
\* absolute existing paths and the three flags of the command line.
C5_SimulateResolvesThenRuns ==
    cmd.name = "simulate" =>
        /\ Len(calls) <= 1
        /\ sim.asked \in {<<>>, <<"INPUT">>, <<"OUTPUT">>, <<"INPUT", "OUTPUT">>}
        /\ sim.pc \in {"ask_in", "ask_out"} =>
              /\ result.how = "running"
              /\ calls = <<>>
              /\ ~IsDir(fs, AbsPath(sim.folder))
        /\ sim.pc = "ask_out" => ResolvedFolder(sim.input_folder)
        /\ result.exc.kind = "UserAbort" =>
              /\ result.how = "SystemExit"
              /\ calls = <<>>
        /\ result.how = "returned" =>
              /\ Len(calls) = 1
              /\ ResolvedFolder(calls[1].input_folder)
              /\ ResolvedFolder(calls[1].output_folder)
              /\ calls[1].plot_workflow = cmd.plot
              /\ calls[1].hide_warn_msgbox = cmd.nowarn
              /\ calls[1].gen_outfiles_per_vehicle = cmd.more
        /\ result.how \in {"running", "returned", "SystemExit"}

\* C5 witness: a simulate command that asked for both folders, first for
\* INPUT and then for OUTPUT, and then called the pipeline
C5_Witness ==
    /\ cmd.name = "simulate"
    /\ sim.asked = <<"INPUT", "OUTPUT">>
    /\ result.how = "returned"
    /\ Len(calls) = 1
    /\ cmd.more

\* C6 (as claimed): every command-level failure, NotSupported included, ends
\* main() with a message and a non-zero exit status, never as an exception
\* that leaves main().
C6_FailuresCaughtInMain ==
    result.exc.kind \in {"AlreadyExists", "InvalidTarget", "NotFound",
                         "UserAbort", "NotSupported"} =>
        /\ result.how = "SystemExit"
        /\ result.code # 0

-----------------------------------------------------------------------------
(* The claims about model_selector.                                        *)

\* a family has just been processed: sel.last tells its heap before the
\* selection, and the models and origins before the family
JustFinished == sel.pc \in {"score", "done"} /\ sel.last.fam # 0

LastFamily == ModelTargets[sel.last.fam]

Ranked == Range(sel.last.heap)

\* the final result holds the models of candidate c over what it held
\* before
Merged(c) == sel.models = Update(sel.last.models, c.m)

\* the provenance map has an entry for every model of the family
Recorded == Range(LastFamily.models) \subseteq DOMAIN sel.origin

Untouched == sel.models = sel.last.models /\ sel.origin = sel.last.origin

\* the heap holds one tuple for every output that has all the models of
\* the family, made of its cycle name and of its models of the family, and
\* one for the models of the post-processing when there are any
HeapHoldsTheCandidates ==
    LET d == LastFamily
        cs == Candidates(d, sel.em, 1)
        all == DOMAIN Post(d, sel.last.origin, co).e_mods # {}
    IN  /\ Len(sel.last.heap) = Cardinality(cs) + (IF all THEN 1 ELSE 0)
        /\ \A i \in cs : \E c \in Ranked :
              /\ c.src = i
              /\ c.co_i = co[i]["cycle_name"].s
              /\ c.len = Cardinality(DOMAIN sel.em[i])
              /\ c.m = [k \in Range(d.models) |-> sel.em[i][k]]
        /\ all => \E c \in Ranked : c.src = 0 /\ c.co_i = "ALL" /\ c.len = 1

AllScoresDefined == \A c \in Ranked : ~c.err.nan

\* (err, len, co_i) of c is not after that of c2
KeyNotAfter(c, c2) ==
    \/ c.err.n * c2.err.d < c2.err.n * c.err.d
    \/ /\ c.err.n * c2.err.d = c2.err.n * c.err.d
       /\ \/ c.len < c2.len
          \/ c.len = c2.len /\ StrRank(c.co_i) <= StrRank(c2.co_i)

\* the place of a candidate in the order of the calls of error_fun
PushOrder(c) == IF c.src = 0 THEN Len(co) + 1 ELSE c.src

\* (err, len) of c is not after that of c2, and on a tie c was pushed first
FirstSeenNotAfter(c, c2) ==
    \/ c.err.n * c2.err.d < c2.err.n * c.err.d
    \/ /\ c.err.n * c2.err.d = c2.err.n * c.err.d
       /\ \/ c.len < c2.len
          \/ c.len = c2.len /\ PushOrder(c) <= PushOrder(c2)

\* two outputs that tie on everything but their models
TiedOutputs(d) ==
    \E i, j \in Candidates(d, sel.em, 1) :
        /\ i # j
        /\ co[i]["cycle_name"] = co[j]["cycle_name"]
        /\ Cardinality(DOMAIN sel.em[i]) = Cardinality(DOMAIN sel.em[j])
        /\ \E k \in Range(d.models) : sel.em[i][k] # sel.em[j][k]

FirstPushed == CHOOSE c \in Ranked : \A c2 \in Ranked : PushOrder(c) <= PushOrder(c2)

C9_EmptyFamilyNeverFails ==
    ~(sel.pc = "raised" /\ sel.where = "post_processing")

-----------------------------------------------------------------------------
(* The claims about get_models.                                            *)

\* the places in methods_ids of the error coefficients that are present and
\* not empty
Present(o) == {i \in 1..Len(MethodsIds) : Truthy(o, MethodsIds[i][1])}

Mae(o, i) == o[MethodsIds[i][1]].a
Corr(o, i) == o[MethodsIds[i][1]].b

\* the ratios of i and j are equal / the ratio of i is the lower one
SameRatio(o, i, j) == Mae(o, i) * Corr(o, j) = Mae(o, j) * Corr(o, i)
LowerRatio(o, i, j) == Mae(o, i) * Corr(o, j) < Mae(o, j) * Corr(o, i)

\* strategy i comes before strategy j by ratio, then mean_absolute_error,
\* then correlation_coefficient, then name
Before(o, i, j) ==
    \/ LowerRatio(o, i, j)
    \/ /\ SameRatio(o, i, j)
       /\ \/ Mae(o, i) < Mae(o, j)
          \/ /\ Mae(o, i) = Mae(o, j)
             /\ \/ Corr(o, i) < Corr(o, j)
                \/ /\ Corr(o, i) = Corr(o, j)
                   /\ StrRank(MethodsIds[i][2]) < StrRank(MethodsIds[j][2])

\* get_models returned strategy i as the AT_gear_shifting_model
Resolved(i) ==
    /\ gm.exc = "none"
    /\ Has(gm.models, "AT_gear_shifting_model")
    /\ gm.models["AT_gear_shifting_model"] =
          V("at", MethodsIds[i][2], Mae(gm.o, i), Corr(gm.o, i))
    /\ gm.models[MethodsIds[i][2]] = gm.o[MethodsIds[i][2]]

\* C10 (as the code has it): get_models resolves the shifting strategy of
\* lowest mean_absolute_error / correlation_coefficient ratio among the
\* error-coefficient records present and non-empty; on an exact tie of the
\* ratio the lower mean_absolute_error wins, then the lower
\* correlation_coefficient, then the strategy name that sorts first; absent
\* or empty records are skipped, with none present no AT_gear_shifting_model
\* entry is produced, and a winner whose model is not in the calibration
\* output raises a KeyError.
C10_LowestRatioThenErrorThenName ==
    gm.pc = "done" =>
        /\ Present(gm.o) = {} =>
              gm.exc = "none" /\ ~Has(gm.models, "AT_gear_shifting_model")
        /\ Present(gm.o) # {} =>
              \E i \in Present(gm.o) :
                  /\ \A j \in Present(gm.o) \ {i} : Before(gm.o, i, j)
                  /\ IF Has(gm.o, MethodsIds[i][2]) THEN Resolved(i)
                     ELSE gm.exc = "KeyError"

\* two strategies tie on the ratio and the one inserted later is resolved
C10_Witness ==
    /\ gm.pc = "done"
    /\ \E i, j \in Present(gm.o) :
          i < j /\ SameRatio(gm.o, i, j) /\ Resolved(j)

\* C10 (as stated): the strategy of lowest ratio is resolved, and on an
\* exact tie of the ratio the strategy inserted first wins.
C10_FirstInsertedWinsTies ==
    (gm.pc = "done" /\ gm.exc = "none" /\ Present(gm.o) # {}) =>
        \E i \in Present(gm.o) :
            /\ Resolved(i)
            /\ \A j \in Present(gm.o) :
                  LowerRatio(gm.o, i, j) \/ (SameRatio(gm.o, i, j) /\ i <= j)

\* candidate c is where model k of the final result is from, and the
\* provenance map says so
ProvenanceOf(c, k) ==
    /\ Has(sel.origin, k) /\ sel.origin[k] = c.co_i
    /\ Has(sel.models, k) /\ sel.models[k] = c.m[k]

\* the output (or the fit on all outputs) that the provenance map names for
\* model k holds the model k of the final result
NamedSourceHolds(k) ==
    \/ sel.origin[k] = "ALL" /\ sel.models[k].a = 0
    \/ \E i \in 1..Len(co) :
          /\ co[i]["cycle_name"].s = sel.origin[k]
          /\ Has(sel.em[i], k) /\ sel.em[i][k] = sel.models[k]

\* C11: for every family that selected a candidate, the provenance map maps
\* every model name of the family to the cycle name of the candidate whose
\* models were merged, and every such name is in the result; when
\* model_selector returns, every entry of the provenance map names a source
\* that holds the model of the result.
C11_ProvenanceNamesTheMerged ==
    /\ (JustFinished /\ Ranked # {}) =>
          \E c \in Ranked :
              /\ Merged(c)
              /\ \A k \in Range(LastFamily.models) : ProvenanceOf(c, k)
    /\ sel.pc = "done" =>
          \A k \in DOMAIN sel.origin : Has(sel.models, k) /\ NamedSourceHolds(k)

\* model_selector has returned after a family chose between two candidates
\* of different cycles, and an earlier family had chosen the other cycle
C11_Witness ==
    /\ sel.pc = "done"
    /\ \E k, k2 \in DOMAIN sel.origin : sel.origin[k] # sel.origin[k2]

\* output i is the only one that has a target of family d
OnlyWithTargets(d, i) ==
    /\ ~NoTarget(co[i], d.targets)
    /\ \A j \in 1..Len(co) : j # i => NoTarget(co[j], d.targets)

\* C12: with two calibration outputs of which only one has target keys of
\* the family, the models of that output are the ones selected, and its
\* cycle name is recorded as the origin of every model of the family.
C12_OutputWithTargetsSelected ==
    (JustFinished /\ Len(co) = 2) =>
        \A i \in Candidates(LastFamily, sel.em, 1) :
            OnlyWithTargets(LastFamily, i) =>
                \E c \in Ranked :
                    /\ c.src = i
                    /\ Merged(c)
                    /\ \A k \in Range(LastFamily.models) : ProvenanceOf(c, k)

-----------------------------------------------------------------------------
(* The claims about calibrate_model_params (checked under SpecCalib).      *)

\* the parameter mapping of a point, and the error the function has there
MappingOf(x) == UpdateParams([k \in {} |-> Val("unit", 0)], cal.param_keys, x)
ErrorAt(x) == ErrorF(cal.error_function, MappingOf(x))

\* x has the lowest error of the points evaluated
LowestObserved(x) ==
    /\ x \in cal.evaluated
    /\ ~ErrorAt(x).nan
    /\ \A y \in cal.evaluated : ~FloatLt(ErrorAt(y), ErrorAt(x))

MinimizerFailed == cal.pc = "done" /\ ~cal.success

\* C14: whenever the local minimiser reports failure, calibrate_model_params
\* does not raise and returns the parameter mapping of the point with the
\* lowest error among all the points evaluated during the search.
C14_FailureReturnsBestObserved ==
    MinimizerFailed =>
        /\ cal.exc = "none"
        /\ \E x \in cal.evaluated : LowestObserved(x) /\ cal.params = MappingOf(x)

\* every parameter has a single-point bound (min == max)
SinglePointBounds == \A k \in DOMAIN cal.bounds : cal.bounds[k][1] = cal.bounds[k][2]

Returned == cal.pc = "done" /\ cal.exc = "none"

\* the value is the point, or one EPS away from it
WithinEps(v, point) == v.c = point.c /\ Abs(v.k - point.k) <= 1

\* C15 as stated: with a single-point bound for every parameter the
\* calibration returns exactly that point, for every error function, with
\* and without an initial guess.
C15_SinglePointReturnedExactly ==
    (cal.pc = "done" /\ SinglePointBounds) =>
        /\ cal.exc = "none"
        /\ \A k \in DOMAIN cal.bounds : cal.params[k] = cal.bounds[k][1]

\* C15 as the code has it: with a single-point bound for every parameter
\* the calibration returns, for every parameter, a value within the machine
\* epsilon of the point (the point itself where adding the epsilon to it
\* changes nothing), or raises the TypeError of a failed minimisation in
\* which no error was below infinity.
C15_SinglePointWithinEps ==
    (cal.pc = "done" /\ SinglePointBounds) =>
        \/ /\ cal.exc = "TypeError"
           /\ ~cal.success
           /\ \A x \in cal.evaluated : ~FloatLt(ErrorAt(x), Inf)
        \/ /\ cal.exc = "none"
           /\ DOMAIN cal.params = DOMAIN cal.bounds
           /\ \A k \in DOMAIN cal.bounds :
                 /\ WithinEps(cal.params[k], cal.bounds[k][1])
                 /\ cal.bounds[k][1].c = "large" => cal.params[k] = cal.bounds[k][1]

\* C15 witness: the grid search over two single-point bounds returned a
\* point that is off by the epsilon in one parameter and exact in the other
C15_Witness ==
    /\ Returned
    /\ SinglePointBounds
    /\ cal.initial_guess.none
    /\ Len(cal.param_keys) = 2
    /\ \E k, l \in DOMAIN cal.bounds :
          cal.params[k] # cal.bounds[k][1] /\ cal.params[l] = cal.bounds[l][1]

-----------------------------------------------------------------------------
(* The claims about the formulas (checked under SpecFormulas).             *)

Called(f) == fn.pc = "done" /\ fn.f = f

\* the multiplier pairs as the claim lists them
ClaimedMultipliers(k) ==
    CASE k = "t" -> <<Rat(1, 2), Rat(3, 2)>>
      [] k = "trg" -> <<Rat(9, 10), Rat(11, 10)>>
      [] k \in {"a", "b"} -> <<Rat(4, 5), Rat(6, 5)>>
      [] k \in {"c", "a2", "l"} -> <<Rat(6, 5), Rat(4, 5)>>
      [] k = "l2" -> <<Rat(6, 5), Rat(0, 1)>>

Named == {"t", "trg", "a", "b", "c", "a2", "l", "l2"}

\* the greater and the lesser of two numbers
Greater(x, y) == IF FLt(x, y) THEN y ELSE x
Lesser(x, y) == IF FLt(y, x) THEN y ELSE x

\* the example of the claim: l2 = -0.003 with the original bounds (-0.01, 0.0)
L2Example ==
    /\ Called("restrict_bounds")
    /\ fn.exc = "none"
    /\ "l2" \in DOMAIN fn.co2_params_initial_guess
    /\ fn.co2_params_initial_guess["l2"] = Rat(0 - 3, 1000)
    /\ fn.co2_params_bounds["l2"] = <<Rat(0 - 1, 100), Rat(0, 1)>>

\* C16: restrict_bounds returns, for every coefficient k of the estimate
\* (the estimate naming only coefficients of the multiplier table that have
\* original bounds), the pair (max(original_min_k, value_k * low_mult_k),
\* min(original_max_k, value_k * high_mult_k)) with the multipliers listed;
\* for l2 = -0.003 within (-0.01, 0.0) the pair is (-0.0036, 0.0).
C16_RestrictedBoundsByMultipliers ==
    Called("restrict_bounds") =>
        /\ fn.exc = "none" <=>
              DOMAIN fn.co2_params_initial_guess \subseteq Named \cap DOMAIN fn.co2_params_bounds
        /\ fn.exc = "none" =>
              /\ DOMAIN fn.out = DOMAIN fn.co2_params_initial_guess
              /\ \A k \in DOMAIN fn.co2_params_initial_guess :
                    LET v == fn.co2_params_initial_guess[k]
                        b == fn.co2_params_bounds[k]
                    IN  fn.out[k] = <<Greater(b[1], FMul(v, ClaimedMultipliers(k)[1])),
                                      Lesser(b[2], FMul(v, ClaimedMultipliers(k)[2]))>>
        /\ L2Example => fn.out["l2"] = <<Rat(0 - 9, 2500), Rat(0, 1)>>

\* C16 witness: the bounds of the l2 example were restricted, together with
\* those of a second coefficient
C16_Witness ==
    /\ L2Example
    /\ Cardinality(DOMAIN fn.out) = 2
    /\ fn.out["l2"] = <<Rat(0 - 9, 2500), Rat(0, 1)>>

NormalizedCall == Called("calculate_normalized_engine_coolant_temperatures")

\* C17: calculate_normalized_engine_coolant_temperatures returns exactly 1.0
\* for every sample whose coolant temperature is at or above the target,
\* exactly (theta + 273) / (target + 273) for every sample below it, and no
\* value above 1.0.
C17_NormalizedTemperatureClamped ==
    NormalizedCall =>
        /\ Len(fn.out) = Len(fn.engine_coolant_temperatures)
        /\ \A i \in 1..Len(fn.out) :
              LET theta == fn.engine_coolant_temperatures[i].n
                  target == fn.temperature_target.n
              IN  /\ theta >= target => fn.out[i] = Num(1, 1)
                  /\ theta < target => fn.out[i] = Rat(theta + 273, target + 273)
                  /\ ~FLt(Num(1, 1), fn.out[i])

\* C17 witness: one vector with a sample above the target, clamped to 1.0,
\* and a sample below it, left below 1.0
C17_Witness ==
    /\ NormalizedCall
    /\ \E i, j \in 1..Len(fn.out) :
          /\ fn.engine_coolant_temperatures[i].n > fn.temperature_target.n
          /\ fn.engine_coolant_temperatures[j].n < fn.temperature_target.n
          /\ fn.out[i] = Num(1, 1)
          /\ FLt(fn.out[j], Num(1, 1))

\* C18: calculate_brake_mean_effective_pressures returns 0, and raises
\* nothing, for every sample whose engine speed is 0, whatever the engine
\* power of the sample.
C18_ZeroSpeedGivesZero ==
    Called("calculate_brake_mean_effective_pressures") =>
        \A i \in 1..Len(fn.engine_speeds_out) :
            fn.engine_speeds_out[i].n = 0 => fn.exc = "none" /\ fn.out[i] = Num(0, 1)

Co2EmissionCall == Called("calculate_co2_emission")

\* the sum of phase_co2 x phase_distance, the sum of the distances, and the
\* two with one distance for all the phases (whole numbers)
RECURSIVE WeightedSum(_, _, _)
WeightedSum(c, d, i) ==
    IF i > Len(c) THEN 0
    ELSE c[i].n * (IF Len(d) = 1 THEN d[1].n ELSE d[i].n) + WeightedSum(c, d, i + 1)

RECURSIVE Total(_, _)
Total(d, i) == IF i > Len(d) THEN 0 ELSE d[i].n + Total(d, i + 1)

ClaimedEmission ==
    LET c == fn.phases_co2_emissions.v
        d == fn.phases_distances.v
    IN  IF IsSequence(fn.phases_distances)
        THEN Rat(WeightedSum(c, d, 1), Total(d, 1))
        ELSE Rat(WeightedSum(c, d, 1), d[1].n * Len(c))

\* the example of the claim: the emissions (5.0, 10.0), the distances (2.0, 2.0)
EmissionExample ==
    /\ Co2EmissionCall
    /\ fn.phases_co2_emissions.v = <<Num(5, 1), Num(10, 1)>>
    /\ fn.phases_distances.v = <<Num(2, 1), Num(2, 1)>>

\* C19 as stated: calculate_co2_emission returns sum(phase_co2 x
\* phase_distance) / sum(phase_distance) when per-phase distances are given,
\* the denominator being distance x phase_count when one scalar distance is
\* given; called with the tuples (5.0, 10.0) and (2.0, 2.0) it returns 7.5.
C19_WeightedMeanForEveryArgument ==
    Co2EmissionCall => fn.exc = "none" /\ fn.out = ClaimedEmission

\* C19 as the code has it: the value is returned when at least one of the
\* two arguments is a np.array and the distances are not an int; it is then
\* sum(phase_co2 x phase_distance) / sum(phase_distance), or, for one float
\* distance, over distance x phase_count, and 7.5 for the arrays
\* (5.0, 10.0) and (2.0, 2.0). Two plain tuples, a tuple of emissions with a
\* float distance, and every int distance raise TypeError.
C19_WeightedMeanOfArrays ==
    Co2EmissionCall =>
        LET supported == /\ fn.phases_distances.kind # "int"
                         /\ \/ fn.phases_co2_emissions.kind = "array"
                            \/ fn.phases_distances.kind = "array"
        IN  /\ supported => fn.exc = "none" /\ fn.out = ClaimedEmission
            /\ ~supported => fn.exc = "TypeError"
            /\ (EmissionExample /\ supported) => fn.out = Rat(15, 2)

\* C19 witness: the example, given as arrays, returned 7.5
C19_Witness ==
    /\ EmissionExample
    /\ fn.phases_co2_emissions.kind = "array"
    /\ fn.phases_distances.kind = "array"
    /\ fn.exc = "none"
    /\ fn.out = Rat(15, 2)

Co2EmissionsCalled == Called("calculate_co2_emissions")

\* the position, in the vectors given, of the i-th sample of the result
SampleOf(i) ==
    IF fn.sub_values.none THEN i
    ELSE CHOOSE j \in 1..Len(fn.sub_values.v) :
            /\ fn.sub_values.v[j]
            /\ Cardinality({k \in 1..j : fn.sub_values.v[k]}) = i

\* the engine is off at the sample, its power is at or below the threshold
\* computed for it, or its fuel flow (the idle one where it was overridden)
\* is negative
IsCutOff(i) ==
    \/ ~fn.on_engine[SampleOf(i)]
    \/ FLe(fn.engine_powers_out[SampleOf(i)], fn.locals[i].ec_p0)
    \/ FLt(fn.locals[i].fc, Num(0, 1))

-----------------------------------------------------------------------------
(* The claims about the documentation tests (checked under SpecDocs).      *)

\* the version string is in one of the first 20 lines of the readme
VersionInHeader == \E i \in 1..HeaderLen : i <= Len(doc.readme) /\ doc.readme[i]

\* C21: test_README_version_opening passes only if the version string is in
\* one of the first 20 lines of the readme and fails in every other case: a
\* readme of fewer than 20 lines without the version, and a readme whose
\* first occurrence is on line 21 or later.
C21_PassesOnlyWithVersionInHeader ==
    doc.pc = "done" => (doc.outcome = "passed" <=> VersionInHeader)

CumulativeCo2Called == Called("calculate_cumulative_co2")

\* the boundary times do not decrease
BoundariesOrdered ==
    \A k \in 1..(Len(fn.phases_integration_times) - 1) :
        FLe(fn.phases_integration_times[k], fn.phases_integration_times[k + 1])

\* the phases: the consecutive pairs of boundary times
PhaseCount == IF Len(fn.phases_integration_times) = 0 THEN 0
              ELSE Len(fn.phases_integration_times) - 1

\* the sample i is at or after the start of the phase k and before its end
AssignedTo(i, k) ==
    /\ FLe(fn.phases_integration_times[k], fn.times[i])
    /\ FLt(fn.times[i], fn.phases_integration_times[k + 1])

\* the trapezoids between two successive samples that are both of the phase k
OwnTrapezoids(k) ==
    {i \in 1..(Len(fn.times) - 1) : AssignedTo(i, k) /\ AssignedTo(i + 1, k)}

RECURSIVE SumOfTrapezoids(_)
SumOfTrapezoids(S) ==
    IF S = {} THEN Num(0, 1)
    ELSE LET i == CHOOSE j \in S : TRUE
         IN  FAdd(FDiv(FMul(FSub(fn.times[i + 1], fn.times[i]),
                            FAdd(fn.co2_emissions[i + 1], fn.co2_emissions[i])), Num(2, 1)),
                  SumOfTrapezoids(S \ {i}))

DistanceOf(k) ==
    IF fn.phases_distances.kind = "array" THEN fn.phases_distances.v[k]
    ELSE fn.phases_distances.v[1]

\* C22: calculate_cumulative_co2 returns one value per consecutive pair of
\* boundary times; a sample at t is of the phase (t0, t1) iff t0 <= t < t1,
\* so a sample is of at most one phase and of none before the first and at or
\* after the last boundary; the value of a phase is the trapezoidal integral
\* over its own samples, divided by phases_distances (boundary times that do
\* not decrease).
C22_PhasesAreHalfOpenAndIntegratedAlone ==
    (CumulativeCo2Called /\ BoundariesOrdered) =>
        /\ Len(fn.out) = PhaseCount
        /\ \A k \in 1..PhaseCount : \A i \in 1..Len(fn.times) :
              fn.b[k][i] <=> AssignedTo(i, k)
        /\ \A i \in 1..Len(fn.times) :
              /\ Cardinality({k \in 1..PhaseCount : fn.b[k][i]}) <= 1
              /\ (PhaseCount > 0 /\
                    (\/ FLt(fn.times[i], fn.phases_integration_times[1])
                     \/ FLe(fn.phases_integration_times[PhaseCount + 1], fn.times[i])))
                 => \A k \in 1..PhaseCount : ~fn.b[k][i]
        /\ \A k \in 1..PhaseCount :
              fn.out[k] = FDiv(SumOfTrapezoids(OwnTrapezoids(k)), DistanceOf(k))

\* C22 witness: two phases with a distance each; a sample at the boundary
\* they share is of the second phase only, a sample at the last boundary is of
\* none, and the first phase has an integral
C22_Witness ==
    /\ CumulativeCo2Called
    /\ BoundariesOrdered
    /\ PhaseCount = 2
    /\ fn.phases_distances.kind = "array"
    /\ \E i \in 1..Len(fn.times) :
          /\ fn.times[i] = fn.phases_integration_times[2]
          /\ fn.b[2][i]
          /\ ~fn.b[1][i]
    /\ \E k \in 1..2 : FLt(Num(0, 1), fn.out[k])

-----------------------------------------------------------------------------
(* More claims about model_selector (checked under SpecSel).               *)

\* the records that hold a target of the family just processed
WithTargets == {j \in 1..Len(co) : ~NoTarget(co[j], LastFamily.targets)}

\* C23: the models extracted from the calibration output i are scored only
\* against the other outputs (every j # i), never against output i itself;
\* only the 'ALL' candidate of a post-processing is scored against all
\* outputs.
C23_LeaveOneOut ==
    JustFinished =>
        \A c \in Ranked :
            IF c.src # 0
            THEN /\ c.co_i = co[c.src]["cycle_name"].s
                 /\ c.src \notin Range(c.vs)
                 /\ Range(c.vs) = WithTargets \ {c.src}
            ELSE /\ c.co_i = "ALL"
                 /\ Range(c.vs) = WithTargets

\* C23 witness: the models of an output that has the targets itself were
\* scored against another output, next to an 'ALL' candidate that was scored
\* against both
C23_Witness ==
    /\ JustFinished
    /\ Len(co) >= 2
    /\ \E c \in Ranked :
          /\ c.src # 0
          /\ c.src \in WithTargets
          /\ c.vs # <<>>
    /\ \E c \in Ranked :
          /\ c.src = 0
          /\ Range(c.vs) = 1..Len(co)

-----------------------------------------------------------------------------
(* The claims about calibrate_co2_params (checked under SpecCo2Params).    *)

\* the hot fit has returned
HotFitted == Len(cp.evals) >= 1

HotEvaluation == cp.evals[1]

\* every sample is cold or hot and not both; the cold ones are those below
\* the initial guess of trg
Partitioned ==
    \A c \in 1..Len(cp.temps) : \A i \in 1..Len(cp.temps[c]) :
        /\ cp.cold[c][i] <=> FLt(cp.temps[c][i], cp.guess["trg"])
        /\ cp.hot[c][i] <=> ~cp.cold[c][i]

\* the calls of the error functions made by an evaluation select the
\* samples of b, and no cycle without one is evaluated
SelectsOnly(e, b) ==
    /\ \A call \in e.calls : call.sub_values = b[call.cycle]
    /\ \A c \in 1..Len(b) : (\E i \in 1..Len(b[c]) : b[c][i]) => \E call \in e.calls : call.cycle = c

\* the factor that t and trg give the sample of temperature theta:
\* np.power(n_temp, -p['t'])
TemperatureFactor(theta, p) == PowerMinus(NormalizedTemperature(theta, p["trg"]), p["t"])

\* the hot fit calibrates the six coefficients and evaluates hot samples
HotFitOfSix ==
    /\ Partitioned
    /\ DOMAIN HotEvaluation.params = HotP
    /\ SelectsOnly(HotEvaluation, cp.hot)
    /\ \A call \in HotEvaluation.calls : \A k \in HotP : call.p[k] = HotEvaluation.params[k]

\* C24 (as claimed): the samples are partitioned into cold (below the
\* initial guess of trg) and hot; the hot fit calibrates only {a2, a, b, c,
\* l, l2}, evaluates the error on hot samples only, and evaluates the model
\* with t and trg at their initial-guess values.
C24_HotFitHoldsGuessOfTAndTrg ==
    HotFitted =>
        /\ HotFitOfSix
        /\ \A call \in HotEvaluation.calls :
              /\ call.p["t"] = cp.guess["t"]
              /\ call.p["trg"] = cp.guess["trg"]

\* C24 (amended): the same partition and hot fit, but the model is evaluated
\* with t and trg at 0.0 (default_params is empty); on every hot sample the
\* factor of the temperature is 1 with these and with the initial guesses.
C24_HotFitWithoutTAndTrg ==
    HotFitted =>
        /\ HotFitOfSix
        /\ \A call \in HotEvaluation.calls :
              /\ call.p["t"] = Num(0, 1)
              /\ call.p["trg"] = Num(0, 1)
              /\ \A i \in 1..Len(call.sub_values) :
                    call.sub_values[i] =>
                        /\ TemperatureFactor(cp.temps[call.cycle][i], call.p) = Num(1, 1)
                        /\ TemperatureFactor(cp.temps[call.cycle][i], cp.guess) = Num(1, 1)

\* C24 witness: a cycle with a cold and a hot sample, whose hot sample alone
\* was evaluated by the hot fit
C24_Witness ==
    /\ HotFitted
    /\ \E call \in HotEvaluation.calls :
          /\ \E i \in 1..Len(call.sub_values) : call.sub_values[i]
          /\ \E i \in 1..Len(call.sub_values) : ~call.sub_values[i] /\ cp.cold[call.cycle][i]
    /\ cp.guess["t"] # Num(0, 1)

\* the hot and the cold fit are done (the cold one where there is one)
EstimateMade == cp.pc \in {"restrict", "final", "done"}

SomeColdSample == \E c \in 1..Len(cp.temps) : \E i \in 1..Len(cp.temps[c]) : cp.cold[c][i]

ColdFitRan == \E n \in 1..Len(cp.evals) : cp.evals[n].fit = "cold"

\* the hot-fit value of every coefficient of the hot fit
HasHotFitValues(p) == \A k \in HotP : p[k] = HotEvaluation.params[k]

\* C25: the cold fit of {t, trg} runs iff there is a cold sample, with the
\* hot-fit coefficients as fixed defaults; without a cold sample the
\* estimate handed to restrict_bounds and to the final fit has t and trg at
\* their initial guesses and the hot-fit values for the other coefficients.
C25_ColdFitOnlyWithColdSamples ==
    EstimateMade =>
        /\ ColdFitRan <=> SomeColdSample
        /\ ColdFitRan =>
              /\ Len(cp.evals) = 2
              /\ DOMAIN cp.evals[2].params = ColdP
              /\ cp.evals[2].default_params = HotEvaluation.params
              /\ SelectsOnly(cp.evals[2], cp.cold)
              /\ \A call \in cp.evals[2].calls :
                    /\ HasHotFitValues(call.p)
                    /\ \A k \in ColdP : call.p[k] = cp.evals[2].params[k]
        /\ ~SomeColdSample =>
              /\ DOMAIN cp.p = HotP \cup ColdP
              /\ cp.p["t"] = cp.guess["t"]
              /\ cp.p["trg"] = cp.guess["trg"]
              /\ HasHotFitValues(cp.p)
        /\ cp.pc \in {"final", "done"} => cp.restricted = RestrictBounds(cp.bounds, cp.p).out
        /\ cp.pc = "done" => cp.initial = cp.p

\* C25 witness: the only cold sample is in the second cycle: the cold fit ran
\* on it with the hot-fit coefficients, and the final fit has returned
C25_Witness ==
    /\ cp.pc = "done"
    /\ Len(cp.temps) = 2
    /\ ~NpAny(cp.cold[1])
    /\ ColdFitRan
    /\ \E call \in cp.evals[2].calls : call.cycle = 2 /\ HasHotFitValues(call.p)
    /\ cp.p["trg"] # cp.guess["trg"]

-----------------------------------------------------------------------------
(* More claims about calculate_co2_emissions (checked under SpecFormulas). *)

\* the threshold of calculate_p0 at the idle speed median of the call
IdleThreshold ==
    CalculateP0(EffectiveParams(fn.params, fn.default_params), fn.engine_capacity,
                fn.engine_stroke, fn.idle_engine_speed[1],
                fn.engine_fuel_lower_heating_value)

\* C26: the threshold p0 that calculate_co2_emissions applies is the
\* fuel-mean-effective-pressure equation evaluated at the idle mean piston
\* speed (from the idle speed median), with power 0 and temperature 1: one
\* and the same value, independent of the engine speed of the sample, is
\* compared with the power of every sample.
C26_OneThresholdFromIdleSpeed ==
    Co2EmissionsCalled =>
        \A i \in 1..Len(fn.locals) : fn.locals[i].ec_p0 = IdleThreshold

\* the value the claim gives the key k
ClaimedParam(k) ==
    IF k \in DOMAIN fn.params THEN fn.params[k]
    ELSE IF k \in DOMAIN fn.default_params THEN fn.default_params[k]
    ELSE Num(0, 1)

WithinOriginal(k) ==
    /\ FLe(fn.co2_params_bounds[k][1], fn.co2_params_initial_guess[k])
    /\ FLe(fn.co2_params_initial_guess[k], fn.co2_params_bounds[k][2])

\* C28: whenever the value of a coefficient lies within its original bounds,
\* the pair (lo, hi) that restrict_bounds returns for it has
\* lo <= value <= hi, for positive, zero and negative values alike.
C28_RestrictedBoundsHoldEstimate ==
    (Called("restrict_bounds") /\ fn.exc = "none") =>
        \A k \in DOMAIN fn.out :
            WithinOriginal(k) =>
                /\ FLe(fn.out[k][1], fn.co2_params_initial_guess[k])
                /\ FLe(fn.co2_params_initial_guess[k], fn.out[k][2])


-----------------------------------------------------------------------------
(* More claims about the command line (checked under SpecCli).             *)

\* the destination of the j-th path of the template command
Destination(j) == TemplatePath(cmd.paths[j])

\* the file system the command found, with the template at the
\* destinations of its first j paths
FsAfter(j) ==
    [q \in DOMAIN pre \cup {Destination(i) : i \in 1..j} |->
        IF q \in {Destination(i) : i \in 1..j} THEN File(TemplateData) ELSE pre[q]]

\* the check of the j-th path fails, on the file system as its turn finds it
Refused(j) ==
    \/ Exists(FsAfter(j - 1), Destination(j)) /\ ~cmd.force
    \/ IsDir(FsAfter(j - 1), Destination(j))

\* the k-th path is the first whose check fails, every path before it
\* having been written
FailsAt(k) ==
    /\ cmd.name = "template"
    /\ k \in 1..Len(cmd.paths)
    /\ Refused(k)
    /\ \A j \in 1..(k - 1) :
          ~Refused(j) /\ CanOpenForWrite(FsAfter(j - 1), Destination(j))

\* C29: template with several destination paths goes through them one by
\* one in argument order with no rollback: when the check of the k-th path
\* fails, the files of the paths 1..k-1 have been written and are on disk,
\* the k-th destination is as its check found it, and nothing else of the
\* file system differs from before the command (no path after k is written).
C29_TemplateStopsAtFirstRefusal ==
    \A k \in 1..MaxPaths + 1 :
        FailsAt(k) =>
            /\ result.how = "SystemExit"
            /\ result.exc.cls = "CmdException"
            /\ written = [i \in 1..(k - 1) |-> Destination(i)]
            /\ \A i \in 1..(k - 1) : Lookup(fs, Destination(i)) = File(TemplateData)
            /\ Lookup(fs, Destination(k)) = Lookup(FsAfter(k - 1), Destination(k))
            /\ \A q \in DOMAIN fs \ {Destination(i) : i \in 1..(k - 1)} :
                  Lookup(fs, q) = Lookup(pre, q)

\* C29 witness: 't ./in/a' without --force, /w/in/a.xlsx being there: the
\* template was written to /w/t.xlsx, where nothing was, and is still
\* there, the second path was refused and its old file is as it was
C29_Witness ==
    /\ FailsAt(2)
    /\ cmd.paths = <<(<<"t">>), <<Dot, Sep, "in", Sep, "a">>>>
    /\ ~Exists(pre, P_t)
    /\ Lookup(fs, P_t) = File(TemplateData)
    /\ written = <<P_t>>
    /\ Lookup(pre, P_a) = OldFile
    /\ Lookup(fs, P_a) = OldFile
    /\ result.exc = CmdException("AlreadyExists")


-----------------------------------------------------------------------------
(* Further claims about model_selector (checked under SpecSel).            *)

\* the families that declare the model k, and the first and last of them
Declaring(k) == {f \in 1..Len(ModelTargets) : k \in Range(ModelTargets[f].models)}
FirstDeclaring(k) == CHOOSE f \in Declaring(k) : \A g \in Declaring(k) : f <= g
LastDeclaring(k) == CHOOSE f \in Declaring(k) : \A g \in Declaring(k) : g <= f

\* the entry of k in a dictionary, if any
Entry(dict, k) == IF Has(dict, k) THEN <<dict[k]>> ELSE <<>>

\* the outputs that hold co2_params: the per-cycle candidates
PerCycle == {i \in 1..Len(sel.em) : Has(sel.em[i], "co2_params")}

\* the fit over all cycles is made: more than one output, one of them with
\* the initial guess and the bounds
AllProduced == Len(co) > 1 /\ \E j \in 1..Len(co) : HasGuessAndBounds(co[j])

\* a family follows the one before it in the tuple of comparison_model
InDeclarationOrder ==
    /\ (sel.pc = "start" /\ sel'.pc = "score") => sel'.fam = 1
    /\ (sel.pc = "score" /\ sel'.pc \in {"score", "done"}) =>
          \/ sel'.fam = sel.fam /\ sel'.last = NoLast
          \/ /\ sel'.last.fam = sel.fam
             /\ IF sel.fam = Len(ModelTargets) THEN sel'.pc = "done"
                ELSE sel'.pc = "score" /\ sel'.fam = sel.fam + 1

\* no family after the last that declares co2_params changes it or its
\* provenance entry
Co2ParamsKept ==
    (sel.pc = "score" /\ sel.fam > LastDeclaring("co2_params")) =>
        /\ Entry(sel'.models, "co2_params") = Entry(sel.models, "co2_params")
        /\ Entry(sel'.origin, "co2_params") = Entry(sel.origin, "co2_params")

\* what holds when a family that declares co2_params has been processed
\* (sel.last.heap[1] is heap[0], the tuple the family chose)
Co2ParamsFamilies ==
    (JustFinished /\ sel.last.fam \in Declaring("co2_params")) =>
        /\ Declaring("co2_params") =
              {FirstDeclaring("co2_params"), LastDeclaring("co2_params")}
        /\ ~ModelTargets[FirstDeclaring("co2_params")].post
        /\ ModelTargets[LastDeclaring("co2_params")].post
        /\ {c.src : c \in Ranked} \ {0} = PerCycle
        /\ \A i \in PerCycle : \E c \in Ranked :
              /\ c.src = i
              /\ c.co_i = co[i]["cycle_name"].s
              /\ c.m["co2_params"] = sel.em[i]["co2_params"]
        /\ IF sel.last.fam = LastDeclaring("co2_params")
           THEN /\ AllProduced <=> \E c \in Ranked : c.co_i = "ALL" /\ c.src = 0
                /\ Ranked # {} =>
                      /\ ProvenanceOf(sel.last.heap[1], "co2_params")
                      /\ Merged(sel.last.heap[1])
           ELSE \A c \in Ranked : c.src # 0

\* C30: the families are processed in declaration order, and a later family
\* overwrites an earlier one for a model name they share: co2_params and its
\* provenance entry are, when model_selector returns, those chosen by the
\* last family that declares co2_params (the one with the post-processing)
\* whenever that family selects anything; the candidates of that family are
\* every per-cycle candidate of the standalone co2_params family and, when
\* it is produced, the 'ALL' candidate.
C30_LaterFamilyOverwrites ==
    /\ []Co2ParamsFamilies
    /\ [][InDeclarationOrder /\ Co2ParamsKept]_vars

\* C30 witness: model_selector has returned; the standalone family had
\* chosen the co2_params of a cycle, and the family with the
\* post-processing, ranking two per-cycle candidates and 'ALL', replaced it
\* by the fit over all cycles
C30_Witness ==
    /\ sel.pc = "done"
    /\ Cardinality(PerCycle) = 2
    /\ AllProduced
    /\ Has(sel.origin, "co2_params")
    /\ sel.origin["co2_params"] = "ALL"
    /\ sel.models["co2_params"].a = 0
    /\ \A i \in PerCycle : sel.em[i]["co2_params"] # sel.models["co2_params"]

=============================================================================
